---- MODULE Spec2Model ----
(***************************************************************************)
(* Matryoshka tree: an outer B+ tree whose leaves are 4 KiB pages, each    *)
(* page holding a B+ sub-tree of cache-line (CL) sub-nodes.                *)
(*                                                                         *)
(* The model follows matryoshka.c (outer tree, batch operations, iterator) *)
(* and leaf.c (page sub-tree) operation by operation.  Node capacities are *)
(* model bounds: the source values (15 keys per CL leaf, 13 children per   *)
(* CL internal, 63 slots per page, 339 keys per outer internal) are scaled *)
(* down so that splits, merges and height changes happen on small trees;   *)
(* every derived quantity (minimum fills, page_max_keys, min_page_keys) is *)
(* computed from them by the same expressions as in the source.            *)
(*                                                                         *)
(* Array positions are 0-based as in the C code; At(s, i) reads s[i].      *)
(***************************************************************************)
EXTENDS Integers, Sequences, FiniteSets, TLC

(* ---- scaled capacities (model bounds) ---------------------------------- *)

\* keys per CL leaf (source value 15)
MT_CL_KEY_CAP == 3
\* children per CL internal (source value 13)
MT_CL_CHILD_CAP == 3
\* usable CL slots per page (source value 63)
MT_PAGE_SLOTS == 9
\* separator keys per outer internal node (source value 339)
MT_MAX_IKEYS == 2

(* ---- quantities the source derives from the capacities ----------------- *)

MT_CL_MIN_KEYS == MT_CL_KEY_CAP \div 2
MT_CL_SEP_CAP == MT_CL_CHILD_CAP - 1
MT_CL_MIN_CHILDREN == (MT_CL_CHILD_CAP + 1) \div 2
MT_MIN_IKEYS == MT_MAX_IKEYS \div 2
\* bits 0-5 of a tagged leaf pointer hold root_slot, bits 6-8 sub_height
MT_PTR_HEIGHT_SHIFT == 6
NULL == 0

Min2(a, b) == IF a < b THEN a ELSE b
Max2(a, b) == IF a > b THEN a ELSE b
SetMin(S) == CHOOSE x \in S : \A y \in S : x <= y
SetMax(S) == CHOOSE x \in S : \A y \in S : x >= y

At(s, i) == s[i + 1]
\* s[from .. from+cnt-1] (0-based), the memcpy source ranges of the code
Slice(s, from, cnt) == [j \in 1..cnt |-> s[from + j]]
\* memmove-right by one from pos, then store x at pos
InsertAt(s, pos, x) == [j \in 1..(Len(s) + 1) |->
                          IF j <= pos THEN s[j]
                          ELSE IF j = pos + 1 THEN x ELSE s[j - 1]]
\* memmove-left by one over pos
RemoveAt(s, pos) == [j \in 1..(Len(s) - 1) |-> IF j <= pos THEN s[j] ELSE s[j + 1]]

(* ---- hierarchy configuration ------------------------------------------- *)

compute_page_max_keys(cl_key_cap, cl_child_cap, page_slots) ==
    LET h0 == cl_key_cap
        h1_leaves == IF 1 + cl_child_cap > page_slots THEN page_slots - 1
                     ELSE cl_child_cap
        best1 == Max2(h0, h1_leaves * cl_key_cap)
        ms == {m \in 1..cl_child_cap : 1 + m < page_slots}
        keysFor(m) == Min2(page_slots - 1 - m, m * cl_child_cap) * cl_key_cap
    IN  IF ms = {} THEN best1
        ELSE Max2(best1, SetMax({keysFor(m) : m \in ms}))

mt_hierarchy_init_default ==
    LET pmax == compute_page_max_keys(MT_CL_KEY_CAP, MT_CL_CHILD_CAP, MT_PAGE_SLOTS)
    IN  [page_max_keys |-> pmax, min_page_keys |-> pmax \div 4]

(* ---- CL sub-nodes ------------------------------------------------------ *)

FreeSlot == [type |-> "free", keys |-> <<>>, children |-> <<>>]
cl_leaf_init == [type |-> "leaf", keys |-> <<>>, children |-> <<>>]
cl_inode_init == [type |-> "internal", keys |-> <<>>, children |-> <<>>]

RECURSIVE LowerBoundLoop(_, _, _, _)
LowerBoundLoop(keys, key, lo, hi) ==
    IF lo < hi
    THEN LET mid == lo + (hi - lo) \div 2
         IN  IF At(keys, mid) < key THEN LowerBoundLoop(keys, key, mid + 1, hi)
             ELSE LowerBoundLoop(keys, key, lo, mid)
    ELSE lo

cl_leaf_lower_bound(cl, key) == LowerBoundLoop(cl.keys, key, 0, Len(cl.keys))

\* index of the largest key <= key, or -1: the lowest index whose key is
\* greater, minus one (all SIMD variants compute this)
cl_leaf_predecessor(cl, key) ==
    LET n == Len(cl.keys)
        gt == {i \in 0..(n - 1) : At(cl.keys, i) > key}
    IN  IF n = 0 THEN -1
        ELSE IF gt # {} THEN SetMin(gt) - 1 ELSE n - 1

\* rc: 0 inserted, -1 duplicate, -2 full
cl_leaf_insert(cl, key) ==
    LET pos == cl_leaf_lower_bound(cl, key)
    IN  IF pos < Len(cl.keys) /\ At(cl.keys, pos) = key THEN [cl |-> cl, rc |-> -1]
        ELSE IF Len(cl.keys) >= MT_CL_KEY_CAP THEN [cl |-> cl, rc |-> -2]
        ELSE [cl |-> [cl EXCEPT !.keys = InsertAt(cl.keys, pos, key)], rc |-> 0]

cl_leaf_delete(cl, key) ==
    LET pos == cl_leaf_lower_bound(cl, key)
    IN  IF pos >= Len(cl.keys) \/ At(cl.keys, pos) # key THEN [cl |-> cl, rc |-> -1]
        ELSE [cl |-> [cl EXCEPT !.keys = RemoveAt(cl.keys, pos)], rc |-> 0]

\* the split with the last key of the left half handed up as the separator
cl_leaf_split_SepOfLeft(left) ==
    LET total == Len(left.keys)
        left_n == total \div 2
        right_n == total - left_n
    IN  [left |-> [left EXCEPT !.keys = Slice(left.keys, 0, left_n)],
         right |-> [cl_leaf_init EXCEPT !.keys = Slice(left.keys, left_n, right_n)],
         sep |-> left.keys[left_n]]

\* the upper half moves to the fresh right leaf; separator = right.keys[0]
cl_leaf_split(left) ==
    LET total == Len(left.keys)
        left_n == total \div 2
        right_n == total - left_n
        rk == Slice(left.keys, left_n, right_n)
    IN  [left |-> [left EXCEPT !.keys = Slice(left.keys, 0, left_n)],
         right |-> [cl_leaf_init EXCEPT !.keys = rk],
         sep |-> rk[1]]

\* child index to follow: lowest i with keys[i] > key, else nkeys
cl_inode_search(cl, key) ==
    LET n == Len(cl.keys)
        gt == {i \in 0..(n - 1) : At(cl.keys, i) > key}
    IN  IF n = 0 THEN 0 ELSE IF gt # {} THEN SetMin(gt) ELSE n

cl_inode_insert_at(cl, pos, key, right_child) ==
    [cl EXCEPT !.keys = InsertAt(cl.keys, pos, key),
               !.children = InsertAt(cl.children, pos + 1, right_child)]

cl_inode_remove_at(cl, pos) ==
    [cl EXCEPT !.keys = RemoveAt(cl.keys, pos),
               !.children = RemoveAt(cl.children, pos + 1)]

(* ---- page: slot allocator ---------------------------------------------- *)

\* lowest clear bit among 1..MT_PAGE_SLOTS, or 0 when none is clear
slot_alloc(page) ==
    LET avail == (1..MT_PAGE_SLOTS) \ page.slot_bitmap
    IN  IF avail = {} THEN [page |-> page, slot |-> 0]
        ELSE LET slot == SetMin(avail)
             IN  [page |-> [page EXCEPT !.slot_bitmap = @ \cup {slot},
                                        !.nslots_used = @ + 1],
                  slot |-> slot]

\* the bit is cleared and the count of used slots is left as it was
slot_free_CountKept(page, slot) == [page EXCEPT !.slot_bitmap = @ \ {slot}]

slot_free(page, slot) ==
    [page EXCEPT !.slot_bitmap = @ \ {slot}, !.nslots_used = @ - 1]

get_slot(page, slot) == page.slots[slot]

(* ---- page: search ------------------------------------------------------ *)

RECURSIVE FindLeafLoop(_, _, _, _, _)
FindLeafLoop(page, key, slot, i, path) ==
    IF i < page.sub_height
    THEN LET s == get_slot(page, slot)
             ci == cl_inode_search(s, key)
         IN  FindLeafLoop(page, key, At(s.children, ci), i + 1,
                          Append(path, [slot |-> slot, child_idx |-> ci]))
    ELSE [slot |-> slot, path |-> path]

\* descent from root_slot through sub_height CL internals
page_find_leaf(page, key) == FindLeafLoop(page, key, page.root_slot, 0, <<>>)

RECURSIVE RightmostLeaf_Leftmost(_, _)
\* the descent into the previous sibling sub-tree taking children[0]
RightmostLeaf_Leftmost(page, s) ==
    LET slot == get_slot(page, s)
    IN  IF slot.type = "internal"
        THEN RightmostLeaf_Leftmost(page, At(slot.children, 0))
        ELSE slot

RECURSIVE RightmostLeaf(_, _)
RightmostLeaf(page, s) ==
    LET slot == get_slot(page, s)
    IN  IF slot.type = "internal"
        THEN RightmostLeaf(page, At(slot.children, Len(slot.keys)))
        ELSE slot

RECURSIVE WalkLeft(_, _, _)
\* first ancestor (bottom-up) whose chosen child index is > 0
WalkLeft(page, path, i) ==
    IF i < 0 THEN [found |-> FALSE, key |-> 0]
    ELSE IF At(path, i).child_idx > 0
         THEN LET parent == get_slot(page, At(path, i).slot)
                  lf == RightmostLeaf(page, At(parent.children, At(path, i).child_idx - 1))
              IN  IF Len(lf.keys) > 0
                  THEN [found |-> TRUE, key |-> At(lf.keys, Len(lf.keys) - 1)]
                  ELSE [found |-> FALSE, key |-> 0]
         ELSE WalkLeft(page, path, i - 1)

mt_page_search_key(page, key) ==
    IF page.nkeys = 0 THEN [found |-> FALSE, key |-> 0]
    ELSE LET AtLeaf(fl, cl, pos) ==
                 IF pos >= 0 THEN [found |-> TRUE, key |-> At(cl.keys, pos)]
                 ELSE WalkLeft(page, fl.path, Len(fl.path) - 1)
             Found(fl) == AtLeaf(fl, get_slot(page, fl.slot),
                                 cl_leaf_predecessor(get_slot(page, fl.slot), key))
         IN  Found(page_find_leaf(page, key))

mt_page_contains(page, key) ==
    IF page.nkeys = 0 THEN FALSE
    ELSE LET AtLeaf(cl, pos) == pos < Len(cl.keys) /\ At(cl.keys, pos) = key
             Found(cl) == AtLeaf(cl, cl_leaf_lower_bound(cl, key))
         IN  Found(get_slot(page, page_find_leaf(page, key).slot))

(* ---- page: insert ------------------------------------------------------ *)

SetSlot(page, slot, v) == [page EXCEPT !.slots[slot] = v]

RECURSIVE InsertPropagate(_, _, _, _, _)
\* the loop "for (i = path_len - 1; i >= 0; i--)" followed by the new-root step
InsertPropagate(page, path, i, sep, right_slot) ==
    IF i < 0
    THEN \* split reached the sub-tree root: create a new root
         LET NewRoot(a) ==
                 IF a.slot = 0 THEN [page |-> page, status |-> "PAGE_FULL"]
                 ELSE [page |-> [SetSlot(a.page, a.slot,
                                         [cl_inode_init EXCEPT
                                             !.keys = <<sep>>,
                                             !.children = <<page.root_slot, right_slot>>])
                                   EXCEPT !.root_slot = a.slot, !.sub_height = @ + 1],
                       status |-> "OK"]
         IN  NewRoot(slot_alloc(page))
    ELSE LET pslot == At(path, i).slot
             ci == At(path, i).child_idx
             \* the split of a full CL internal: left_n keys stay, all_keys[left_n]
             \* moves up, the rest go to the new slot
             Halves(parent, a, all_keys, all_children) ==
                 LET total == Len(parent.keys) + 1
                     left_n == total \div 2
                     right_n == total - left_n - 1
                     lnode == [parent EXCEPT
                                 !.keys = Slice(all_keys, 0, left_n),
                                 !.children = Slice(all_children, 0, left_n + 1)]
                     rnode == [cl_inode_init EXCEPT
                                 !.keys = Slice(all_keys, left_n + 1, right_n),
                                 !.children = Slice(all_children, left_n + 1, right_n + 1)]
                 IN  InsertPropagate(SetSlot(SetSlot(a.page, pslot, lnode), a.slot, rnode),
                                     path, i - 1, At(all_keys, left_n), a.slot)
             SplitInode(parent, a) ==
                 IF a.slot = 0 THEN [page |-> page, status |-> "PAGE_FULL"]
                 ELSE Halves(parent, a, InsertAt(parent.keys, ci, sep),
                             InsertAt(parent.children, ci + 1, right_slot))
             AtParent(parent) ==
                 IF Len(parent.keys) < MT_CL_SEP_CAP
                 THEN [page |-> SetSlot(page, pslot,
                                        cl_inode_insert_at(parent, ci, sep, right_slot)),
                       status |-> "OK"]
                 ELSE \* CL internal is full: split it
                      SplitInode(parent, slot_alloc(page))
         IN  AtParent(get_slot(page, pslot))

mt_page_insert(page, key) ==
    LET \* the CL leaf has room
        Room(leaf_slot, r) ==
            IF r.rc = -1 THEN [page |-> page, status |-> "DUPLICATE"]
            ELSE [page |-> [SetSlot(page, leaf_slot, r.cl) EXCEPT !.nkeys = @ + 1],
                  status |-> "OK"]
        \* sp: the two halves of the split CL leaf; a: the newly allocated slot
        Split(fl, a, sp) ==
            LET lft == IF key < sp.sep THEN cl_leaf_insert(sp.left, key).cl
                       ELSE sp.left
                rgt == IF key < sp.sep THEN sp.right
                       ELSE cl_leaf_insert(sp.right, key).cl
                pg == [SetSlot(SetSlot(a.page, fl.slot, lft), a.slot, rgt)
                         EXCEPT !.nkeys = @ + 1]
            IN  InsertPropagate(pg, fl.path, Len(fl.path) - 1, sp.sep, a.slot)
        \* the CL leaf is full: duplicate check, then split
        Full(fl, cl, pos, a) ==
            IF pos < Len(cl.keys) /\ At(cl.keys, pos) = key
            THEN [page |-> page, status |-> "DUPLICATE"]
            ELSE IF a.slot = 0 THEN [page |-> page, status |-> "PAGE_FULL"]
            ELSE Split(fl, a, cl_leaf_split(cl))
        AtLeaf(fl, cl) ==
            IF Len(cl.keys) < MT_CL_KEY_CAP
            THEN Room(fl.slot, cl_leaf_insert(cl, key))
            ELSE Full(fl, cl, cl_leaf_lower_bound(cl, key), slot_alloc(page))
        Found(fl) == AtLeaf(fl, get_slot(page, fl.slot))
    IN  Found(page_find_leaf(page, key))

(* ---- page: delete ------------------------------------------------------ *)

DropLast(s) == SubSeq(s, 1, Len(s) - 1)
Last(s) == s[Len(s)]
\* the parent's separator left as it was after a key or a child moved over
SetKey_Stale(cl, i, k) == cl
SetKey(cl, i, k) == [cl EXCEPT !.keys[i + 1] = k]

\* the underflow loop without its CL-leaf case: an underfull CL leaf stays
DeleteFixLeaf_NoRebalance(page, pslot, cidx, cur_slot) ==
    [page |-> page, done |-> TRUE]

\* one iteration of the underflow loop on a CL leaf `cur` (child cidx of parent)
DeleteFixLeaf(page, pslot, cidx, cur_slot) ==
    LET \* move the last key of the left sibling into cur
        FromLeft(parent, left_slot_idx, left, ncur) ==
            [page |-> SetSlot(SetSlot(SetSlot(page, left_slot_idx,
                                              [left EXCEPT !.keys = DropLast(left.keys)]),
                                      cur_slot, ncur),
                              pslot, SetKey(parent, cidx - 1, At(ncur.keys, 0))),
             done |-> TRUE]
        \* move the first key of the right sibling into cur
        FromRight(parent, right_slot_idx, nright, ncur) ==
            [page |-> SetSlot(SetSlot(SetSlot(page, right_slot_idx, nright),
                                      cur_slot, ncur),
                              pslot, SetKey(parent, cidx, At(nright.keys, 0))),
             done |-> TRUE]
        Fix(parent, cur, left_slot_idx, left, right_slot_idx, right) ==
            IF cidx > 0 /\ Len(left.keys) > MT_CL_MIN_KEYS
            THEN FromLeft(parent, left_slot_idx, left,
                          cl_leaf_insert(cur, Last(left.keys)).cl)
            ELSE IF cidx < Len(parent.keys) /\ Len(right.keys) > MT_CL_MIN_KEYS
            THEN FromRight(parent, right_slot_idx,
                           cl_leaf_delete(right, At(right.keys, 0)).cl,
                           cl_leaf_insert(cur, At(right.keys, 0)).cl)
            ELSE IF cidx > 0
            THEN \* merge cur into the left sibling
                 [page |-> SetSlot(slot_free(SetSlot(page, left_slot_idx,
                                                     [left EXCEPT
                                                        !.keys = left.keys \o cur.keys]),
                                             cur_slot),
                                   pslot, cl_inode_remove_at(parent, cidx - 1)),
                  done |-> FALSE]
            ELSE \* merge the right sibling into cur
                 [page |-> SetSlot(slot_free(SetSlot(page, cur_slot,
                                                     [cur EXCEPT
                                                        !.keys = cur.keys \o right.keys]),
                                             right_slot_idx),
                                   pslot, cl_inode_remove_at(parent, cidx)),
                  done |-> FALSE]
        Siblings(parent, left_slot_idx, right_slot_idx) ==
            Fix(parent, get_slot(page, cur_slot),
                left_slot_idx, get_slot(page, left_slot_idx),
                right_slot_idx, get_slot(page, right_slot_idx))
        AtParent(parent) ==
            Siblings(parent, At(parent.children, cidx - 1), At(parent.children, cidx + 1))
    IN  AtParent(get_slot(page, pslot))

\* one iteration of the underflow loop on a CL internal `cur`
DeleteFixInode(page, pslot, cidx, cur_slot) ==
    LET Fix(parent, cur, left_slot_idx, left, right_slot_idx, right_in) ==
            IF cidx > 0 /\ Len(left.keys) > MT_CL_MIN_CHILDREN - 1
            THEN \* rotate right
                 LET ncur == [cur EXCEPT
                                !.keys = <<At(parent.keys, cidx - 1)>> \o cur.keys,
                                !.children = <<Last(left.children)>> \o cur.children]
                     nleft == [left EXCEPT !.keys = DropLast(left.keys),
                                           !.children = DropLast(left.children)]
                     pg == SetSlot(SetSlot(page, cur_slot, ncur), left_slot_idx, nleft)
                 IN  [page |-> SetSlot(pg, pslot,
                                       SetKey(parent, cidx - 1, Last(left.keys))),
                      done |-> TRUE]
            ELSE IF cidx < Len(parent.keys)
                    /\ Len(right_in.keys) > MT_CL_MIN_CHILDREN - 1
            THEN \* rotate left
                 LET ncur == [cur EXCEPT
                                !.keys = Append(cur.keys, At(parent.keys, cidx)),
                                !.children = Append(cur.children,
                                                    At(right_in.children, 0))]
                     nright == [right_in EXCEPT !.keys = Tail(right_in.keys),
                                                !.children = Tail(right_in.children)]
                     pg == SetSlot(SetSlot(page, cur_slot, ncur), right_slot_idx, nright)
                 IN  [page |-> SetSlot(pg, pslot,
                                       SetKey(parent, cidx, At(right_in.keys, 0))),
                      done |-> TRUE]
            ELSE IF cidx > 0
            THEN \* merge cur into the left sibling, pulling the separator down
                 LET nleft == [left EXCEPT
                                 !.keys = left.keys \o <<At(parent.keys, cidx - 1)>>
                                                    \o cur.keys,
                                 !.children = left.children \o cur.children]
                     pg == SetSlot(page, left_slot_idx, nleft)
                 IN  [page |-> SetSlot(slot_free(pg, cur_slot), pslot,
                                       cl_inode_remove_at(parent, cidx - 1)),
                      done |-> FALSE]
            ELSE \* merge the right sibling into cur
                 LET ncur == [cur EXCEPT
                                !.keys = cur.keys \o <<At(parent.keys, cidx)>>
                                                  \o right_in.keys,
                                !.children = cur.children \o right_in.children]
                     pg == SetSlot(page, cur_slot, ncur)
                 IN  [page |-> SetSlot(slot_free(pg, right_slot_idx), pslot,
                                       cl_inode_remove_at(parent, cidx)),
                      done |-> FALSE]
        Siblings(parent, left_slot_idx, right_slot_idx) ==
            Fix(parent, get_slot(page, cur_slot),
                left_slot_idx, get_slot(page, left_slot_idx),
                right_slot_idx, get_slot(page, right_slot_idx))
        AtParent(parent) ==
            Siblings(parent, At(parent.children, cidx - 1), At(parent.children, cidx + 1))
    IN  AtParent(get_slot(page, pslot))

RECURSIVE DeleteLoop(_, _, _, _)
\* "for (level = path_len - 1; level >= 0; level--)"
DeleteLoop(page, path, leaf_slot, level) ==
    IF level < 0 THEN page
    ELSE LET pslot == At(path, level).slot
             cidx == At(path, level).child_idx
             cur_slot == IF level = Len(path) - 1 THEN leaf_slot
                         ELSE At(path, level + 1).slot
             Fixed(r) == IF r.done THEN r.page
                         ELSE DeleteLoop(r.page, path, leaf_slot, level - 1)
             AtNode(cur, min_keys) ==
                 IF Len(cur.keys) >= min_keys THEN page
                 ELSE Fixed(IF cur.type = "leaf"
                            THEN DeleteFixLeaf(page, pslot, cidx, cur_slot)
                            ELSE DeleteFixInode(page, pslot, cidx, cur_slot))
             Cur(cur) == AtNode(cur, IF cur.type = "leaf" THEN MT_CL_MIN_KEYS
                                     ELSE MT_CL_MIN_CHILDREN - 1)
         IN  Cur(get_slot(page, cur_slot))

\* a root internal left with 0 keys is kept as the root
CollapseRoot_Kept(page) == page

\* "Check if root internal has 0 keys - collapse"
CollapseRoot(page) ==
    LET root == get_slot(page, page.root_slot)
    IN  IF root.type = "internal" /\ Len(root.keys) = 0 /\ page.sub_height > 0
        THEN slot_free([page EXCEPT !.root_slot = At(root.children, 0),
                                    !.sub_height = @ - 1],
                       page.root_slot)
        ELSE page

PageUnderflow(page, hier) ==
    IF page.nkeys < hier.min_page_keys THEN "UNDERFLOW" ELSE "OK"

mt_page_delete(page, key, hier) ==
    LET Done(pg) == [page |-> pg, status |-> PageUnderflow(pg, hier)]
        \* r: the outcome of cl_leaf_delete; pg: the page with the key removed
        Removed(fl, r, pg) ==
            IF Len(fl.path) = 0 \/ Len(r.cl.keys) >= MT_CL_MIN_KEYS
            THEN Done(pg)
            ELSE Done(CollapseRoot(DeleteLoop(pg, fl.path, fl.slot, Len(fl.path) - 1)))
        AtLeaf(fl, r) ==
            IF r.rc < 0 THEN [page |-> page, status |-> "NOT_FOUND"]
            ELSE Removed(fl, r, [SetSlot(page, fl.slot, r.cl) EXCEPT !.nkeys = @ - 1])
        Found(fl) == AtLeaf(fl, cl_leaf_delete(get_slot(page, fl.slot), key))
    IN  Found(page_find_leaf(page, key))

(* ---- page: extract sorted, bulk load, split ---------------------------- *)

RECURSIVE extract_subtree(_, _)
RECURSIVE ExtractChildren(_, _, _)
ExtractChildren(page, children, i) ==
    IF i > Len(children) THEN <<>>
    ELSE extract_subtree(page, children[i]) \o ExtractChildren(page, children, i + 1)

\* in-order traversal; separators are routing keys and are skipped
extract_subtree(page, slot) ==
    LET s == get_slot(page, slot)
    IN  IF s.type = "leaf" THEN s.keys
        ELSE ExtractChildren(page, s.children, 1)

mt_page_extract_sorted(page) ==
    IF page.nkeys = 0 THEN <<>> ELSE extract_subtree(page, page.root_slot)

\* memset(page, 0) plus the two header fields bulk_load sets afterwards
ZeroPage ==
    [nkeys |-> 0, root_slot |-> 0, sub_height |-> 0, slot_bitmap |-> {0},
     nslots_used |-> 0, prev |-> NULL, next |-> NULL,
     slots |-> [i \in 1..MT_PAGE_SLOTS |-> FreeSlot]]

\* number of items unit i (0-based) receives when cnt items are spread over
\* units: cnt / units, the first cnt % units units taking one more
Share(cnt, units, i) == cnt \div units + (IF i < cnt % units THEN 1 ELSE 0)
RECURSIVE ShareOffset(_, _, _)
ShareOffset(cnt, units, i) ==
    IF i = 0 THEN 0 ELSE ShareOffset(cnt, units, i - 1) + Share(cnt, units, i - 1)

RECURSIVE BulkFillLeaves(_, _, _, _, _)
\* "Fill CL leaves sequentially": returns the page and the level description
BulkFillLeaves(page, sorted_keys, nleaves, i, level) ==
    IF i >= nleaves THEN [page |-> page, level |-> level]
    ELSE LET nkeys == Len(sorted_keys)
             k == Share(nkeys, nleaves, i)
             Fill(a, offset) ==
                 BulkFillLeaves(SetSlot(a.page, a.slot,
                                        [cl_leaf_init EXCEPT
                                            !.keys = Slice(sorted_keys, offset, k)]),
                                sorted_keys, nleaves, i + 1,
                                Append(level, [slot |-> a.slot,
                                               sep |-> At(sorted_keys, offset)]))
         IN  Fill(slot_alloc(page), ShareOffset(nkeys, nleaves, i))

RECURSIVE BulkBuildParents(_, _, _, _, _)
BulkBuildParents(page, level, num_parents, p, next) ==
    IF p >= num_parents THEN [page |-> page, level |-> next]
    ELSE LET level_count == Len(level)
             Build(a, nc, ci) ==
                 BulkBuildParents(
                     SetSlot(a.page, a.slot,
                             [cl_inode_init EXCEPT
                                !.keys = [j \in 1..(nc - 1) |-> At(level, ci + j).sep],
                                !.children = [j \in 1..nc |-> At(level, ci + j - 1).slot]]),
                     level, num_parents, p + 1,
                     Append(next, [slot |-> a.slot, sep |-> At(level, ci).sep]))
         IN  Build(slot_alloc(page), Share(level_count, num_parents, p),
                   ShareOffset(level_count, num_parents, p))

RECURSIVE BulkBuildLevels(_, _, _)
\* "while (level_count > 1)": one internal level per round
BulkBuildLevels(page, level, height) ==
    IF Len(level) <= 1
    THEN [page EXCEPT !.root_slot = At(level, 0).slot, !.sub_height = height]
    ELSE LET np0 == (Len(level) + MT_CL_CHILD_CAP - 1) \div MT_CL_CHILD_CAP
             num_parents == IF np0 = 0 THEN 1 ELSE np0
             Round(r) == BulkBuildLevels(r.page, r.level, height + 1)
         IN  Round(BulkBuildParents(page, level, num_parents, 0, <<>>))

mt_page_bulk_load(sorted_keys) ==
    LET nkeys == Len(sorted_keys)
        nleaves == (nkeys + MT_CL_KEY_CAP - 1) \div MT_CL_KEY_CAP
        \* empty page: a single empty CL leaf as root
        Empty(a) == [SetSlot(a.page, a.slot, cl_leaf_init) EXCEPT
                        !.root_slot = a.slot, !.sub_height = 0, !.nkeys = 0]
        \* f: the page and the leaf level after the leaves are filled
        Build(f) ==
            IF nleaves = 1
            THEN [f.page EXCEPT !.nkeys = nkeys,
                                !.root_slot = At(f.level, 0).slot, !.sub_height = 0]
            ELSE BulkBuildLevels([f.page EXCEPT !.nkeys = nkeys], f.level, 0)
    IN  IF nkeys = 0
        THEN Empty(slot_alloc(ZeroPage))
        ELSE Build(BulkFillLeaves(ZeroPage, sorted_keys, nleaves, 0, <<>>))

mt_page_init == mt_page_bulk_load(<<>>)

\* left_n = n / 2 keys stay, the rest go to new_page; returns all_keys[left_n]
mt_page_split(page) ==
    LET Halves(all_keys) ==
            LET n == Len(all_keys)
                left_n == n \div 2
                right_n == n - left_n
            IN  [page |-> mt_page_bulk_load(Slice(all_keys, 0, left_n)),
                 new_page |-> mt_page_bulk_load(Slice(all_keys, left_n, right_n)),
                 sep |-> At(all_keys, left_n)]
    IN  Halves(mt_page_extract_sorted(page))

MT_KEY_MAX == 2147483647

RECURSIVE LeftmostLeaf(_, _)
LeftmostLeaf(page, s) ==
    LET slot == get_slot(page, s)
    IN  IF slot.type = "internal" THEN LeftmostLeaf(page, At(slot.children, 0))
        ELSE slot

mt_page_min_key(page) ==
    IF page.nkeys = 0 THEN MT_KEY_MAX
    ELSE LET s == LeftmostLeaf(page, page.root_slot)
         IN  IF Len(s.keys) > 0 THEN At(s.keys, 0) ELSE MT_KEY_MAX

page_max_key(page) ==
    LET s == RightmostLeaf(page, page.root_slot)
    IN  IF Len(s.keys) > 0 THEN At(s.keys, Len(s.keys) - 1) ELSE MT_KEY_MAX

(* ---- outer tree: heap, pointers, internal nodes ------------------------- *)

\* The heap H is a record [root, n, height, inodes, pages]: the fields of
\* matryoshka_tree_t together with the internal nodes and leaf pages reachable
\* from it, each addressed by a positive id (NULL = 0).  A child pointer is a
\* record [id, tag]; tag holds the low 12 bits of the C pointer.

EmptyMap == [i \in {} |-> 0]
Put(f, id, v) == [i \in (DOMAIN f) \cup {id} |-> IF i = id THEN v ELSE f[i]]
Del(f, id) == [i \in (DOMAIN f) \ {id} |-> f[i]]
\* the lowest unused id
AllocId(f) == SetMin((1..(Cardinality(DOMAIN f) + 1)) \ DOMAIN f)

Ptr(id) == [id |-> id, tag |-> 0]
\* tree->hier.use_superpages, read off the leaves the tree owns
use_superpages(H) == \E id \in DOMAIN H.pages : "pg" \in DOMAIN H.pages[id]
mt_untag(ptr) == [ptr EXCEPT !.tag = 0]
mt_tag_leaf_ptr(H, ptr) ==
    LET leaf == H.pages[ptr.id]
    IN  [ptr EXCEPT !.tag = leaf.root_slot + leaf.sub_height * (2 ^ MT_PTR_HEIGHT_SHIFT)]

\* memset(p, 0, ...) of a fresh internal node
mt_alloc_inode(H) ==
    LET id == AllocId(H.inodes)
    IN  [H |-> [H EXCEPT !.inodes = Put(@, id, [keys |-> <<>>, children |-> <<>>])],
         id |-> id]

\* a fresh zeroed leaf page
mt_alloc_lnode(H) ==
    LET id == AllocId(H.pages)
    IN  [H |-> [H EXCEPT !.pages = Put(@, id, [ZeroPage EXCEPT !.slot_bitmap = {}])],
         id |-> id]

\* the leaf page is unlinked but never handed back
mt_free_lnode_Leaked(H, id) == H

mt_free_inode(H, id) == [H EXCEPT !.inodes = Del(@, id)]
mt_free_lnode(H, id) == [H EXCEPT !.pages = Del(@, id)]

\* child index to follow: the lowest i with keys[i] > key, else nkeys
mt_inode_search(node, key) ==
    LET n == Len(node.keys)
        gt == {i \in 0..(n - 1) : At(node.keys, i) > key}
    IN  IF n = 0 THEN 0 ELSE IF gt # {} THEN SetMin(gt) ELSE n

inode_insert_at(node, pos, key, right_child) ==
    [node EXCEPT !.keys = InsertAt(node.keys, pos, key),
                 !.children = InsertAt(node.children, pos + 1, right_child)]

inode_remove_at(node, pos) ==
    [node EXCEPT !.keys = RemoveAt(node.keys, pos),
                 !.children = RemoveAt(node.children, pos + 1)]

RECURSIVE FindLeafOuter(_, _, _, _, _)
FindLeafOuter(H, key, node, i, path) ==
    IF i < H.height
    THEN LET in == H.inodes[node.id]
             idx == mt_inode_search(in, key)
         IN  FindLeafOuter(H, key, mt_untag(At(in.children, idx)), i + 1,
                           Append(path, [node |-> node.id, idx |-> idx]))
    ELSE [leaf |-> node.id, path |-> path]

\* root-to-leaf walk recording the internal nodes and child indices taken
find_leaf(H, key) == FindLeafOuter(H, key, H.root, 0, <<>>)

retag_leaf_in_parent(H, path) ==
    IF H.height > 0
    THEN LET parent == At(path, H.height - 1).node
             cidx == At(path, H.height - 1).idx
             old == At(H.inodes[parent].children, cidx)
         IN  [H EXCEPT !.inodes[parent].children[cidx + 1] =
                           mt_tag_leaf_ptr(H, mt_untag(old))]
    ELSE H

(* ---- lifecycle --------------------------------------------------------- *)

EmptyHeap == [root |-> Ptr(NULL), n |-> 0, height |-> 0,
              inodes |-> EmptyMap, pages |-> EmptyMap]

\* matryoshka_create(): default hierarchy, one empty leaf page as root
matryoshka_create_with ==
    LET Root(a) == [a.H EXCEPT !.root = Ptr(a.id), !.pages[a.id] = mt_page_init]
    IN  Root(mt_alloc_lnode(EmptyHeap))

RECURSIVE BulkLeaves(_, _, _, _, _)
\* "Distribute keys across leaves": one bulk-loaded page per leaf
BulkLeaves(H, sorted_keys, nleaves, i, entries) ==
    IF i >= nleaves THEN [H |-> H, entries |-> entries]
    ELSE LET n == Len(sorted_keys)
             k == Share(n, nleaves, i)
             Fill(a, offset) ==
                 BulkLeaves([a.H EXCEPT !.pages[a.id] =
                                mt_page_bulk_load(Slice(sorted_keys, offset, k))],
                            sorted_keys, nleaves, i + 1,
                            Append(entries, [node |-> Ptr(a.id),
                                             min_key |-> At(sorted_keys, offset)]))
         IN  Fill(mt_alloc_lnode(H), ShareOffset(n, nleaves, i))

\* the leaves are left unlinked (prev = next = NULL on every page)
BulkLink_Unlinked(H, entries) == H

\* "Link leaves": prev/next of entries[i] point at its neighbours
BulkLink(H, entries) ==
    LET nleaves == Len(entries)
        idx(id) == CHOOSE i \in 0..(nleaves - 1) : At(entries, i).node.id = id
    IN  [H EXCEPT !.pages = [id \in DOMAIN @ |->
            [@[id] EXCEPT
               !.prev = IF idx(id) > 0 THEN At(entries, idx(id) - 1).node.id ELSE NULL,
               !.next = IF idx(id) < nleaves - 1 THEN At(entries, idx(id) + 1).node.id
                        ELSE NULL]]]

RECURSIVE BulkParents(_, _, _, _, _, _)
BulkParents(H, entries, num_parents, p, height, new_entries) ==
    IF p >= num_parents THEN [H |-> H, entries |-> new_entries]
    ELSE LET level_count == Len(entries)
             child(e) == IF height = 0 /\ ~use_superpages(H)
                        THEN mt_tag_leaf_ptr(H, e.node) ELSE e.node
             Build(a, nc, ci) ==
                 BulkParents(
                     [a.H EXCEPT !.inodes[a.id] =
                         [keys |-> [j \in 1..(nc - 1) |-> At(entries, ci + j).min_key],
                          children |-> [j \in 1..nc |-> child(At(entries, ci + j - 1))]]],
                     entries, num_parents, p + 1, height,
                     Append(new_entries, [node |-> Ptr(a.id),
                                          min_key |-> At(entries, ci).min_key]))
         IN  Build(mt_alloc_inode(H), Share(level_count, num_parents, p),
                   ShareOffset(level_count, num_parents, p))

RECURSIVE BulkLevels_OneParent(_, _, _)
\* every level is gathered under a single parent, whatever its width
BulkLevels_OneParent(H, entries, height) ==
    IF Len(entries) <= 1
    THEN [H EXCEPT !.root = At(entries, 0).node, !.height = height]
    ELSE LET Round(r) == BulkLevels_OneParent(r.H, r.entries, height + 1)
         IN  Round(BulkParents(H, entries, 1, 0, height, <<>>))

RECURSIVE BulkLevels(_, _, _)
\* "Build internal levels bottom-up"
BulkLevels(H, entries, height) ==
    IF Len(entries) <= 1
    THEN [H EXCEPT !.root = At(entries, 0).node, !.height = height]
    ELSE LET np0 == (Len(entries) + MT_MAX_IKEYS) \div (MT_MAX_IKEYS + 1)
             num_parents == IF np0 = 0 THEN 1 ELSE np0
             Round(r) == BulkLevels(r.H, r.entries, height + 1)
         IN  Round(BulkParents(H, entries, num_parents, 0, height, <<>>))

matryoshka_bulk_load_with(sorted_keys, hier) ==
    LET n == Len(sorted_keys)
        max_lkeys == hier.page_max_keys
        nleaves == (n + max_lkeys - 1) \div max_lkeys
        \* l: the heap and the leaf entries after the leaves are built
        Leaves(l) == BulkLevels(BulkLink(l.H, l.entries), l.entries, 0)
    IN  IF n = 0 THEN matryoshka_create_with
        ELSE Leaves(BulkLeaves([EmptyHeap EXCEPT !.n = n], sorted_keys, nleaves, 0, <<>>))

matryoshka_bulk_load(sorted_keys) ==
    matryoshka_bulk_load_with(sorted_keys, mt_hierarchy_init_default)

(* ---- queries ----------------------------------------------------------- *)

matryoshka_size(H) == H.n

RECURSIVE WalkOuter(_, _, _, _)
\* the read-only descent of search / contains / iter_from
WalkOuter(H, key, node, i) ==
    IF i < H.height
    THEN LET in == H.inodes[node.id]
         IN  WalkOuter(H, key, mt_untag(At(in.children, mt_inode_search(in, key))), i + 1)
    ELSE node.id

\* predecessor search: [found, key]
matryoshka_search(H, key) ==
    IF H.n = 0 THEN [found |-> FALSE, key |-> 0]
    ELSE LET InLeaf(leaf, r) ==
                 IF r.found THEN r
                 ELSE IF leaf.prev # NULL /\ H.pages[leaf.prev].nkeys > 0
                      THEN [found |-> TRUE, key |-> page_max_key(H.pages[leaf.prev])]
                      ELSE [found |-> FALSE, key |-> 0]
             AtLeaf(leaf) == InLeaf(leaf, mt_page_search_key(leaf, key))
         IN  AtLeaf(H.pages[WalkOuter(H, key, H.root, 0)])

matryoshka_contains(H, key) ==
    IF H.n = 0 THEN FALSE
    ELSE mt_page_contains(H.pages[WalkOuter(H, key, H.root, 0)], key)

(* ---- insert ------------------------------------------------------------ *)

RECURSIVE SepPos(_, _, _)
\* "while (pos < nkeys && keys[pos] < sep) pos++"
SepPos(keys, sep, pos) ==
    IF pos < Len(keys) /\ At(keys, pos) < sep THEN SepPos(keys, sep, pos + 1) ELSE pos

RECURSIVE PropagateLoop(_, _, _, _, _)
PropagateLoop(H, path, level, sep, right_child) ==
    IF level < 0
    THEN \* root split: create a new root
         LET NewRoot(a) ==
                 [a.H EXCEPT
                    !.inodes[a.id] =
                        [keys |-> <<sep>>,
                         children |-> <<IF H.height = 0 /\ ~use_superpages(H)
                                        THEN mt_tag_leaf_ptr(H, H.root)
                                        ELSE H.root,
                                        right_child>>],
                    !.root = Ptr(a.id), !.height = @ + 1]
         IN  NewRoot(mt_alloc_inode(H))
    ELSE LET pid == At(path, level).node
             \* internal node overflow: left_keys keys stay, all_keys[left_keys]
             \* moves up, the rest go to the new node
             Halves(a, all_keys, all_children) ==
                 LET total == Len(all_keys)
                     left_keys == total \div 2
                     right_keys == total - left_keys - 1
                     lnode == [keys |-> Slice(all_keys, 0, left_keys),
                               children |-> Slice(all_children, 0, left_keys + 1)]
                     ri == [keys |-> Slice(all_keys, left_keys + 1, right_keys),
                            children |-> Slice(all_children, left_keys + 1,
                                               right_keys + 1)]
                 IN  PropagateLoop([a.H EXCEPT !.inodes[pid] = lnode, !.inodes[a.id] = ri],
                                   path, level - 1, At(all_keys, left_keys), Ptr(a.id))
             AtParent(parent, pos) ==
                 IF Len(parent.keys) < MT_MAX_IKEYS
                 THEN [H EXCEPT !.inodes[pid] =
                                   inode_insert_at(parent, pos, sep, right_child)]
                 ELSE Halves(mt_alloc_inode(H), InsertAt(parent.keys, pos, sep),
                             InsertAt(parent.children, pos + 1, right_child))
         IN  AtParent(H.inodes[pid], SepPos(H.inodes[pid].keys, sep, 0))

\* the root split without "tree->height++"
propagate_leaf_split_SameHeight(H, path, sep, right_child) ==
    [PropagateLoop(H, path, H.height - 1, sep, right_child) EXCEPT !.height = H.height]

propagate_leaf_split(H, path, sep, right_child) ==
    PropagateLoop(H, path, H.height - 1, sep, right_child)

\* split_leaf_and_insert up to and including the retag of the left leaf: the
\* full leaf split, key inserted into the correct half, the new leaf spliced
\* into the linked list; [H, new_right]
split_leaf_spliced(H, path, leaf, key) ==
    LET saved_prev == H.pages[leaf].prev
        saved_next == H.pages[leaf].next
        \* H2: the heap with the new leaf spliced into the linked list
        Linked(H2, new_right) ==
            [H |-> retag_leaf_in_parent(H2, path), new_right |-> new_right]
        Link(H1, new_right) ==
            Linked(IF saved_next # NULL
                   THEN [H1 EXCEPT !.pages[saved_next].prev = new_right]
                   ELSE H1,
                   new_right)
        \* a: the allocation of the new leaf; sp: the outcome of mt_page_split
        Halves(a, sp) ==
            LET new_right == a.id
                lpage == IF key < sp.sep THEN mt_page_insert(sp.page, key).page
                         ELSE sp.page
                rpage == IF key < sp.sep THEN sp.new_page
                         ELSE mt_page_insert(sp.new_page, key).page
            IN  Link([a.H EXCEPT
                        !.pages[leaf] = [lpage EXCEPT !.prev = saved_prev,
                                                      !.next = new_right],
                        !.pages[new_right] = [rpage EXCEPT !.next = saved_next,
                                                           !.prev = leaf]],
                     new_right)
    IN  Halves(mt_alloc_lnode(H), mt_page_split(H.pages[leaf]))

\* split a full leaf, insert key into the correct half, splice the new leaf
\* into the linked list and propagate the split upward
split_leaf_and_insert(H, path, leaf, key) ==
    LET \* s.H: the heap after the retag; sep: the first key of the new leaf
        Propagate(s) ==
            propagate_leaf_split(s.H, path, mt_page_min_key(s.H.pages[s.new_right]),
                                 mt_tag_leaf_ptr(s.H, Ptr(s.new_right)))
    IN  Propagate(split_leaf_spliced(H, path, leaf, key))

matryoshka_insert(H, key) ==
    LET \* r: the outcome of mt_page_insert on the leaf; H1: the heap holding
        \* the page as the call left it
        Inserted(fl, r, H1) ==
            IF r.status = "DUPLICATE" THEN [H |-> H1, ret |-> FALSE]
            ELSE IF r.status = "OK"
            THEN [H |-> retag_leaf_in_parent([H1 EXCEPT !.n = @ + 1], fl.path),
                  ret |-> TRUE]
            ELSE \* MT_PAGE_FULL: split and insert
                 [H |-> [split_leaf_and_insert(H1, fl.path, fl.leaf, key)
                           EXCEPT !.n = @ + 1],
                  ret |-> TRUE]
        InLeaf(fl, r) == Inserted(fl, r, [H EXCEPT !.pages[fl.leaf] = r.page])
        AtLeaf(fl) == InLeaf(fl, mt_page_insert(H.pages[fl.leaf], key))
    IN  AtLeaf(find_leaf(H, key))

\* matryoshka_insert when the allocation named by fail ("lnode": the
\* mt_alloc_lnode of split_leaf_and_insert, "inode": the first mt_alloc_inode
\* of propagate_leaf_split) returns NULL. Neither caller tests the pointer:
\* mt_page_split, the memcpy into ri->keys or the store to nr->keys[0] writes
\* through it, and the call never returns. [needed, H]: needed = the call
\* asks for that allocation; H = the tree's memory when the store faults. The
\* store is undefined, so the fault may come before or after (rebuilt) the
\* left page has been rebuilt by mt_page_split.
insert_alloc_fail(H, key, fail, rebuilt) ==
    LET \* the overflowing parent is cut down to its left half before
        \* mt_alloc_inode is called
        PropFault(s, pid, sep, right_child) ==
            LET parent == s.H.inodes[pid]
                pos == SepPos(parent.keys, sep, 0)
                all_keys == InsertAt(parent.keys, pos, sep)
                all_children == InsertAt(parent.children, pos + 1, right_child)
                left_keys == Len(all_keys) \div 2
            IN  IF Len(parent.keys) < MT_MAX_IKEYS
                THEN [needed |-> FALSE, H |-> H]
                ELSE [needed |-> TRUE,
                      H |-> [s.H EXCEPT !.inodes[pid] =
                                [keys |-> Slice(all_keys, 0, left_keys),
                                 children |-> Slice(all_children, 0, left_keys + 1)]]]
        Spliced(fl, s) ==
            IF H.height = 0 THEN [needed |-> TRUE, H |-> s.H]
            ELSE PropFault(s, At(fl.path, H.height - 1).node,
                           mt_page_min_key(s.H.pages[s.new_right]),
                           mt_tag_leaf_ptr(s.H, Ptr(s.new_right)))
        Full(fl, H1) ==
            IF fail = "lnode"
            THEN [needed |-> TRUE,
                  H |-> IF rebuilt
                        THEN [H1 EXCEPT !.pages[fl.leaf] =
                                           mt_page_split(H1.pages[fl.leaf]).page]
                        ELSE H1]
            ELSE Spliced(fl, split_leaf_spliced(H1, fl.path, fl.leaf, key))
        InLeaf(fl, r) ==
            IF r.status = "PAGE_FULL"
            THEN Full(fl, [H EXCEPT !.pages[fl.leaf] = r.page])
            ELSE [needed |-> FALSE, H |-> H]
        AtLeaf(fl) == InLeaf(fl, mt_page_insert(H.pages[fl.leaf], key))
    IN  AtLeaf(find_leaf(H, key))

(* ---- delete (eager rebalancing) ---------------------------------------- *)

\* mt_page_bulk_load into an existing page, with prev/next restored by the caller
Reload(keys, prev, next) == [mt_page_bulk_load(keys) EXCEPT !.prev = prev, !.next = next]

\* the loop left out: an internal node that lost a child is never rebalanced
\* and a root without separators is kept
RebalanceUp_NoPropagation(H, path, lv) == H

RECURSIVE RebalanceUp(_, _, _)
\* "Propagate internal underflow upward"
RebalanceUp(H, path, lv) ==
    IF lv < 0 THEN H
    ELSE LET nid == At(path, lv).node
             node == H.inodes[nid]
         IN  IF lv = 0
             THEN IF Len(node.keys) = 0 /\ H.height > 0
                  THEN [mt_free_inode(H, nid) EXCEPT
                           !.root = mt_untag(At(node.children, 0)),
                           !.height = @ - 1]
                  ELSE H
             ELSE IF Len(node.keys) >= MT_MIN_IKEYS THEN H
             ELSE LET ppid == At(path, lv - 1).node
                      pp == H.inodes[ppid]
                      pi == At(path, lv - 1).idx
                      lid == mt_untag(At(pp.children, pi - 1)).id
                      lsib == H.inodes[lid]
                      rid == mt_untag(At(pp.children, pi + 1)).id
                      rsib == H.inodes[rid]
                  IN  IF pi > 0 /\ Len(lsib.keys) > MT_MIN_IKEYS
                      THEN \* rotate right
                           [H EXCEPT
                              !.inodes[nid] =
                                 [keys |-> <<At(pp.keys, pi - 1)>> \o node.keys,
                                  children |-> <<Last(lsib.children)>> \o node.children],
                              !.inodes[ppid].keys[pi] = Last(lsib.keys),
                              !.inodes[lid] = [keys |-> DropLast(lsib.keys),
                                               children |-> DropLast(lsib.children)]]
                      ELSE IF pi < Len(pp.keys) /\ Len(rsib.keys) > MT_MIN_IKEYS
                      THEN \* rotate left
                           [H EXCEPT
                              !.inodes[nid] =
                                 [keys |-> Append(node.keys, At(pp.keys, pi)),
                                  children |-> Append(node.children, At(rsib.children, 0))],
                              !.inodes[ppid].keys[pi + 1] = At(rsib.keys, 0),
                              !.inodes[rid] = [keys |-> Tail(rsib.keys),
                                               children |-> Tail(rsib.children)]]
                      ELSE IF pi > 0
                      THEN \* merge node into the left sibling
                           LET merged == [keys |-> lsib.keys \o <<At(pp.keys, pi - 1)>>
                                                     \o node.keys,
                                          children |-> lsib.children \o node.children]
                               H1 == [H EXCEPT !.inodes[lid] = merged,
                                               !.inodes[ppid] = inode_remove_at(pp, pi - 1)]
                           IN  RebalanceUp(mt_free_inode(H1, nid), path, lv - 1)
                      ELSE \* merge the right sibling into node
                           LET merged == [keys |-> node.keys \o <<At(pp.keys, pi)>>
                                                     \o rsib.keys,
                                          children |-> node.children \o rsib.children]
                               H1 == [H EXCEPT !.inodes[nid] = merged,
                                               !.inodes[ppid] = inode_remove_at(pp, pi)]
                           IN  RebalanceUp(mt_free_inode(H1, rid), path, lv - 1)

\* rebalance after leaf underflow; level is the path index of the leaf's parent
rebalance_leaf(H, path, leaf, level) ==
    LET pid == At(path, level).node
        cidx == At(path, level).idx
        min_page == mt_hierarchy_init_default.min_page_keys
        \* redistribute from the left sibling
        FromLeft(lid, left, cur, lsorted, rsorted) ==
            LET new_ln == (Len(lsorted) + Len(rsorted)) \div 2
                move == Len(lsorted) - new_ln
                new_right == Slice(lsorted, new_ln, move) \o rsorted
            IN  [H EXCEPT
                   !.pages[lid] = Reload(Slice(lsorted, 0, new_ln), left.prev, left.next),
                   !.pages[leaf] = Reload(new_right, cur.prev, cur.next),
                   !.inodes[pid].keys[cidx] = At(new_right, 0)]
        \* redistribute from the right sibling
        FromRight(rid, right, cur, lsorted, rsorted) ==
            LET new_ln == (Len(lsorted) + Len(rsorted)) \div 2
                move == new_ln - Len(lsorted)
                new_left == lsorted \o Slice(rsorted, 0, move)
                new_right_keys == Slice(rsorted, move, Len(rsorted) - move)
            IN  [H EXCEPT
                   !.pages[leaf] = Reload(new_left, cur.prev, cur.next),
                   !.pages[rid] = Reload(new_right_keys, right.prev, right.next),
                   !.inodes[pid].keys[cidx + 1] = At(new_right_keys, 0)]
        \* H1: the heap after a merge into page `into`; the page after the freed
        \* one gets its prev pointer updated, then the freed page is released
        Merged(H1, next, into, freed) ==
            RebalanceUp(mt_free_lnode(IF next # NULL
                                      THEN [H1 EXCEPT !.pages[next].prev = into]
                                      ELSE H1,
                                      freed),
                        path, level)
        Fix(parent, cur, lid, left, rid, right) ==
            IF cidx > 0 /\ left.nkeys > min_page
            THEN FromLeft(lid, left, cur,
                          mt_page_extract_sorted(left), mt_page_extract_sorted(cur))
            ELSE IF cidx < Len(parent.keys) /\ right.nkeys > min_page
            THEN FromRight(rid, right, cur,
                           mt_page_extract_sorted(cur), mt_page_extract_sorted(right))
            ELSE IF cidx > 0
            THEN \* merge into the left sibling and free the leaf
                 Merged([H EXCEPT
                           !.pages[lid] = Reload(mt_page_extract_sorted(left)
                                                   \o mt_page_extract_sorted(cur),
                                                 left.prev, cur.next),
                           !.inodes[pid] = inode_remove_at(parent, cidx - 1)],
                        cur.next, lid, leaf)
            ELSE \* merge the right sibling into the leaf and free the sibling
                 Merged([H EXCEPT
                           !.pages[leaf] = Reload(mt_page_extract_sorted(cur)
                                                    \o mt_page_extract_sorted(right),
                                                  cur.prev, right.next),
                           !.inodes[pid] = inode_remove_at(parent, cidx)],
                        right.next, leaf, rid)
        Siblings(parent, lid, rid) ==
            Fix(parent, H.pages[leaf], lid, H.pages[lid], rid, H.pages[rid])
        AtParent(parent) ==
            Siblings(parent, mt_untag(At(parent.children, cidx - 1)).id,
                     mt_untag(At(parent.children, cidx + 1)).id)
    IN  AtParent(H.inodes[pid])

matryoshka_delete(H, key) ==
    IF H.n = 0 THEN [H |-> H, ret |-> FALSE]
    ELSE LET \* r: the outcome of mt_page_delete on the leaf; H1: the heap with
             \* the key removed and n decremented
             Deleted(fl, r, H1) ==
                 IF r.status = "NOT_FOUND" THEN [H |-> H, ret |-> FALSE]
                 ELSE IF r.status = "OK"
                 THEN [H |-> retag_leaf_in_parent(H1, fl.path), ret |-> TRUE]
                 ELSE IF H.height = 0 THEN [H |-> H1, ret |-> TRUE]
                 ELSE [H |-> rebalance_leaf(H1, fl.path, fl.leaf, H.height - 1),
                       ret |-> TRUE]
             InLeaf(fl, r) ==
                 Deleted(fl, r, [H EXCEPT !.pages[fl.leaf] = r.page, !.n = @ - 1])
             AtLeaf(fl) ==
                 InLeaf(fl, mt_page_delete(H.pages[fl.leaf], key,
                                           mt_hierarchy_init_default))
         IN  AtLeaf(find_leaf(H, key))

(* ---- batch insert / delete --------------------------------------------- *)

INT32_MAX == 2147483647

RECURSIVE SortInsert(_, _)
SortInsert(sorted, x) ==
    IF sorted = <<>> THEN <<x>>
    ELSE IF x <= Head(sorted) THEN <<x>> \o sorted
    ELSE <<Head(sorted)>> \o SortInsert(Tail(sorted), x)

RECURSIVE qsort(_)
\* the array in non-decreasing order (cmp_int32), duplicates kept
qsort(keys) == IF keys = <<>> THEN <<>> ELSE SortInsert(qsort(Tail(keys)), Head(keys))

find_leaf_node(H, key) == FindLeafOuter(H, key, H.root, 0, <<>>)

\* upper bound of the leaf's key range as the batch loops compute it: the
\* separator right of the leaf in its immediate parent, else INT32_MAX
BatchUpper(H, path) ==
    IF H.height > 0
    THEN LET parent == H.inodes[At(path, H.height - 1).node]
             cidx == At(path, H.height - 1).idx
         IN  IF cidx < Len(parent.keys) THEN At(parent.keys, cidx) ELSE INT32_MAX
    ELSE INT32_MAX

RECURSIVE InsertBatchLeaf(_, _, _, _, _, _, _)
\* inner loop: consecutive keys applied to the same leaf
InsertBatchLeaf(H, sorted, i, inserted, leaf, path, upper) ==
    IF i >= Len(sorted) THEN [H |-> H, i |-> i, inserted |-> inserted]
    ELSE IF i > 0 /\ At(sorted, i) = At(sorted, i - 1)
    THEN InsertBatchLeaf(H, sorted, i + 1, inserted, leaf, path, upper)
    ELSE IF upper # INT32_MAX /\ At(sorted, i) >= upper
    THEN [H |-> H, i |-> i, inserted |-> inserted]
    ELSE LET Inserted(r, H1) ==
                 IF r.status = "DUPLICATE"
                 THEN InsertBatchLeaf(H1, sorted, i + 1, inserted, leaf, path, upper)
                 ELSE IF r.status = "OK"
                 THEN InsertBatchLeaf(retag_leaf_in_parent([H1 EXCEPT !.n = @ + 1], path),
                                      sorted, i + 1, inserted + 1, leaf, path, upper)
                 ELSE \* MT_PAGE_FULL: split and insert, then re-navigate
                      [H |-> [split_leaf_and_insert(H1, path, leaf, At(sorted, i))
                                EXCEPT !.n = @ + 1],
                       i |-> i + 1, inserted |-> inserted + 1]
             InLeaf(r) == Inserted(r, [H EXCEPT !.pages[leaf] = r.page])
         IN  InLeaf(mt_page_insert(H.pages[leaf], At(sorted, i)))

RECURSIVE InsertBatchLoop(_, _, _, _)
InsertBatchLoop(H, sorted, i, inserted) ==
    IF i >= Len(sorted) THEN [H |-> H, ret |-> inserted]
    ELSE IF i > 0 /\ At(sorted, i) = At(sorted, i - 1)
    THEN InsertBatchLoop(H, sorted, i + 1, inserted)
    ELSE LET Applied(r) == InsertBatchLoop(r.H, sorted, r.i, r.inserted)
             AtLeaf(fl) == Applied(InsertBatchLeaf(H, sorted, i, inserted, fl.leaf,
                                                   fl.path, BatchUpper(H, fl.path)))
         IN  AtLeaf(find_leaf_node(H, At(sorted, i)))

matryoshka_insert_batch(H, keys) ==
    IF Len(keys) = 0 THEN [H |-> H, ret |-> 0]
    ELSE InsertBatchLoop(H, qsort(keys), 0, 0)

RECURSIVE DeleteBatchLeaf(_, _, _, _, _, _, _)
DeleteBatchLeaf(H, sorted, i, deleted, leaf, path, upper) ==
    IF i >= Len(sorted)
    THEN [H |-> H, i |-> i, deleted |-> deleted, need_rebalance |-> FALSE]
    ELSE IF i > 0 /\ At(sorted, i) = At(sorted, i - 1)
    THEN DeleteBatchLeaf(H, sorted, i + 1, deleted, leaf, path, upper)
    ELSE IF upper # INT32_MAX /\ At(sorted, i) >= upper
    THEN [H |-> H, i |-> i, deleted |-> deleted, need_rebalance |-> FALSE]
    ELSE LET Deleted(r, H1) ==
                 IF r.status = "NOT_FOUND"
                 THEN DeleteBatchLeaf(H, sorted, i + 1, deleted, leaf, path, upper)
                 ELSE IF r.status = "OK"
                 THEN DeleteBatchLeaf(retag_leaf_in_parent(H1, path), sorted, i + 1,
                                      deleted + 1, leaf, path, upper)
                 ELSE IF H.height > 0
                 THEN [H |-> H1, i |-> i + 1, deleted |-> deleted + 1,
                       need_rebalance |-> TRUE]
                 ELSE DeleteBatchLeaf(H1, sorted, i + 1, deleted + 1, leaf, path, upper)
             InLeaf(r) == Deleted(r, [H EXCEPT !.pages[leaf] = r.page, !.n = @ - 1])
         IN  InLeaf(mt_page_delete(H.pages[leaf], At(sorted, i),
                                   mt_hierarchy_init_default))

RECURSIVE DeleteBatchLoop(_, _, _, _)
DeleteBatchLoop(H, sorted, i, deleted) ==
    IF i >= Len(sorted) THEN [H |-> H, ret |-> deleted]
    ELSE IF i > 0 /\ At(sorted, i) = At(sorted, i - 1)
    THEN DeleteBatchLoop(H, sorted, i + 1, deleted)
    ELSE LET Applied(fl, r) ==
                 DeleteBatchLoop(IF r.need_rebalance
                                 THEN rebalance_leaf(r.H, fl.path, fl.leaf,
                                                     r.H.height - 1)
                                 ELSE r.H,
                                 sorted, r.i, r.deleted)
             AtLeaf(fl) == Applied(fl, DeleteBatchLeaf(H, sorted, i, deleted, fl.leaf,
                                                       fl.path, BatchUpper(H, fl.path)))
         IN  AtLeaf(find_leaf_node(H, At(sorted, i)))

matryoshka_delete_batch(H, keys) ==
    IF Len(keys) = 0 THEN [H |-> H, ret |-> 0]
    ELSE DeleteBatchLoop(H, qsort(keys), 0, 0)

(* ---- iteration --------------------------------------------------------- *)

\* the iterator's buffer after iter_load_leaf: the leaf's keys in order
iter_load_leaf(H, leaf) ==
    IF leaf # NULL /\ H.pages[leaf].nkeys > 0
    THEN mt_page_extract_sorted(H.pages[leaf])
    ELSE <<>>

\* iterator record [leaf, pos, sorted]; nkeys of the C struct is Len(sorted)
matryoshka_iter_from(H, start) ==
    IF H.n = 0 THEN [leaf |-> NULL, pos |-> 0, sorted |-> <<>>]
    ELSE LET Positioned(leaf, sorted, pos, next) ==
                 IF pos >= Len(sorted) /\ next # NULL
                 THEN [leaf |-> next, pos |-> 0, sorted |-> iter_load_leaf(H, next)]
                 ELSE [leaf |-> leaf, pos |-> pos, sorted |-> sorted]
             Loaded(leaf, sorted) ==
                 Positioned(leaf, sorted, SepPos(sorted, start, 0), H.pages[leaf].next)
             AtLeaf(leaf) == Loaded(leaf, iter_load_leaf(H, leaf))
         IN  AtLeaf(WalkOuter(H, start, H.root, 0))

RECURSIVE matryoshka_iter_next(_, _)
\* [iter, ok, key]; the while loop skips over exhausted leaves
matryoshka_iter_next(H, iter) ==
    IF iter.leaf = NULL THEN [iter |-> iter, ok |-> FALSE, key |-> 0]
    ELSE IF iter.pos >= Len(iter.sorted)
    THEN LET next == H.pages[iter.leaf].next
         IN  IF next = NULL THEN [iter |-> iter, ok |-> FALSE, key |-> 0]
             ELSE matryoshka_iter_next(H, [leaf |-> next, pos |-> 0,
                                           sorted |-> iter_load_leaf(H, next)])
    ELSE [iter |-> [iter EXCEPT !.pos = @ + 1], ok |-> TRUE,
          key |-> At(iter.sorted, iter.pos)]

RECURSIVE IterDrain(_, _, _)
\* the keys returned by calling iter_next until it returns false
IterDrain(H, iter, acc) ==
    LET Step(r) == IF r.ok THEN IterDrain(H, r.iter, Append(acc, r.key)) ELSE acc
    IN  Step(matryoshka_iter_next(H, iter))

IterKeys(H, start) == IterDrain(H, matryoshka_iter_from(H, start), <<>>)

(* ---- superpage sub-tree (superpage.c) ---------------------------------- *)

\* In a superpage tree the outer leaves are 2 MiB superpages: H.pages maps an
\* id to a superpage record [nkeys, root_page, sub_height, npages_used,
\* page_bitmap, prev, next, pg], pg[i] being page i (1 .. MT_SP_PAGES-1): a
\* page leaf or a page-level internal [type, keys, children].  A pointer to a
\* page leaf is [sp, idx]; header prev/next are superpage ids.

\* pages per superpage, the header page 0 included (source value 512)
MT_SP_PAGES == 4
\* separator keys per page-level internal (source value 681; as in the
\* source, one internal has room for every page of the superpage)
MT_SP_MAX_IKEYS == 3

\* configuration of a superpage tree: one page-level internal over
\* MT_SP_PAGES - 2 full page leaves; the underflow threshold is a quarter of
\* the capacity, as for pages
mt_hierarchy_init_superpage ==
    LET Sp(h) == [page_max_keys |-> h.page_max_keys,
                  min_page_keys |-> h.min_page_keys,
                  use_superpages |-> TRUE,
                  sp_max_keys |-> (MT_SP_PAGES - 2) * h.page_max_keys,
                  min_sp_keys |-> ((MT_SP_PAGES - 2) * h.page_max_keys) \div 4]
    IN  Sp(mt_hierarchy_init_default)

\* the NULL page-leaf pointer
NoPage == [sp |-> NULL, idx |-> 0]

\* memset(sp, 0, MT_SP_SIZE)
ZeroSp ==
    [nkeys |-> 0, root_page |-> 0, sub_height |-> 0, npages_used |-> 0,
     page_bitmap |-> {}, prev |-> NULL, next |-> NULL,
     pg |-> [i \in 1..(MT_SP_PAGES - 1) |-> [ZeroPage EXCEPT !.slot_bitmap = {}]]]

\* lowest clear bit of the bitmap, 0 when every page is taken; [sp, idx]
sp_page_alloc(sp) ==
    LET avail == (0..(MT_SP_PAGES - 1)) \ sp.page_bitmap
    IN  IF avail = {} THEN [sp |-> sp, idx |-> 0]
        ELSE [sp |-> [sp EXCEPT !.page_bitmap = @ \cup {SetMin(avail)},
                                !.npages_used = @ + 1],
              idx |-> SetMin(avail)]

RECURSIVE sp_find_leaf(_, _, _, _, _)
\* root-to-page-leaf walk inside one superpage, started as
\* sp_find_leaf(sp, key, sp.root_page, 0, <<>>); [leaf, path]
sp_find_leaf(sp, key, page_idx, i, path) ==
    IF i < sp.sub_height
    THEN LET \* binary search for the child to follow: the first separator
             \* above key
             RECURSIVE sp_inode_search(_, _, _)
             sp_inode_search(keys, lo, hi) ==
                 IF lo < hi
                 THEN LET mid == lo + (hi - lo) \div 2
                      IN  IF At(keys, mid) <= key
                          THEN sp_inode_search(keys, mid + 1, hi)
                          ELSE sp_inode_search(keys, lo, mid)
                 ELSE lo
             Down(inode, ci) ==
                 sp_find_leaf(sp, key, At(inode.children, ci), i + 1,
                              Append(path, [page_idx |-> page_idx, child_idx |-> ci]))
             AtNode(inode) ==
                 Down(inode, sp_inode_search(inode.keys, 0, Len(inode.keys)))
         IN  AtNode(sp.pg[page_idx])
    ELSE [leaf |-> page_idx, path |-> path]

\* one empty page leaf as root
mt_sp_init ==
    LET Root(a) == [a.sp EXCEPT !.pg[a.idx] = Reload(<<>>, NoPage, NoPage),
                                !.root_page = a.idx, !.sub_height = 0, !.nkeys = 0]
    IN  Root(sp_page_alloc([ZeroSp EXCEPT !.page_bitmap = {0}]))

\* mt_sp_insert, "Propagate split through page-level internals": sep and
\* right_page go into the internal at path[level]; [H, status]
RECURSIVE sp_insert_propagate(_, _, _, _, _, _)
\* page-level internal overflow: split it.  a: the allocation of the new
\* internal; all_keys, all_ch: the parent's entries with the new one inserted
sp_insert_split_inode(G, id, path, level, a, all_keys, all_ch) ==
    LET pidx == At(path, level).page_idx
        left_keys == Len(all_keys) \div 2
        right_keys == Len(all_keys) - left_keys - 1
    IN  IF a.idx = 0 THEN [H |-> G, status |-> "PAGE_FULL"]
        ELSE sp_insert_propagate(
               [G EXCEPT !.pages[id] =
                  [a.sp EXCEPT
                     !.pg[pidx] =
                         [type |-> "sp_inode",
                          keys |-> Slice(all_keys, 0, left_keys),
                          children |-> Slice(all_ch, 0, left_keys + 1)],
                     !.pg[a.idx] =
                         [type |-> "sp_inode",
                          keys |-> Slice(all_keys, left_keys + 1, right_keys),
                          children |-> Slice(all_ch, left_keys + 1, right_keys + 1)]]],
               id, path, level - 1, At(all_keys, left_keys), a.idx)

sp_insert_propagate(G, id, path, level, sep, right_page) ==
    LET a == sp_page_alloc(G.pages[id])
        pidx == At(path, level).page_idx
        parent == G.pages[id].pg[pidx]
        pos == SepPos(parent.keys, sep, 0)
    IN  IF level < 0
        THEN \* split reached the root: create a new root internal
             IF a.idx = 0 THEN [H |-> G, status |-> "PAGE_FULL"]
             ELSE [H |-> [G EXCEPT !.pages[id] =
                             [a.sp EXCEPT
                                !.pg[a.idx] =
                                    [type |-> "sp_inode", keys |-> <<sep>>,
                                     children |-> <<a.sp.root_page, right_page>>],
                                !.root_page = a.idx,
                                !.sub_height = @ + 1]],
                   status |-> "OK"]
        ELSE IF Len(parent.keys) < MT_SP_MAX_IKEYS
        THEN [H |-> [G EXCEPT !.pages[id].pg[pidx] =
                        [parent EXCEPT
                           !.keys = InsertAt(parent.keys, pos, sep),
                           !.children = InsertAt(parent.children, pos + 1,
                                                 right_page)]],
              status |-> "OK"]
        ELSE sp_insert_split_inode(G, id, path, level, a,
                                   InsertAt(parent.keys, pos, sep),
                                   InsertAt(parent.children, pos + 1, right_page))

\* mt_sp_insert after the split of the full page leaf fl.leaf.  a: the
\* allocation of the new page; page: the full page; h: the outcome of
\* mt_page_split; ins: the half the key belongs to, with the key inserted
sp_insert_link(H, id, key, fl, a, page, h, ins) ==
    LET here == [sp |-> id, idx |-> fl.leaf]
        new == [sp |-> id, idx |-> a.idx]
        lpage == IF key < h.sep THEN ins ELSE h.page
        rpage == IF key < h.sep THEN h.new_page ELSE ins
        H1 == [H EXCEPT !.pages[id] =
                 [a.sp EXCEPT
                    !.nkeys = @ + 1,
                    !.pg[fl.leaf] = [lpage EXCEPT !.prev = page.prev, !.next = new],
                    !.pg[a.idx] = [rpage EXCEPT !.next = page.next, !.prev = here]]]
    IN  sp_insert_propagate(
            IF page.next # NoPage
            THEN [H1 EXCEPT !.pages[page.next.sp].pg[page.next.idx].prev = new]
            ELSE H1,
            id, fl.path, Len(fl.path) - 1, mt_page_min_key(rpage), a.idx)

\* mt_sp_insert after mt_page_split returned h for the full page
sp_insert_split(H, id, key, fl, a, page, h) ==
    sp_insert_link(H, id, key, fl, a, page, h,
                   mt_page_insert(IF key < h.sep THEN h.page ELSE h.new_page, key).page)

\* mt_sp_insert after mt_page_insert returned r for the page leaf fl.leaf
sp_insert_status(H, id, key, fl, r) ==
    LET a == sp_page_alloc(H.pages[id])
    IN  IF r.status = "DUPLICATE"
        THEN [H |-> [H EXCEPT !.pages[id].pg[fl.leaf] = r.page], status |-> "DUPLICATE"]
        ELSE IF r.status = "OK"
        THEN [H |-> [H EXCEPT !.pages[id].pg[fl.leaf] = r.page,
                              !.pages[id].nkeys = @ + 1],
              status |-> "OK"]
        ELSE \* the page is full: split it inside the superpage
             IF a.idx = 0
             THEN [H |-> [H EXCEPT !.pages[id].pg[fl.leaf] = r.page],
                   status |-> "PAGE_FULL"]
             ELSE sp_insert_split(H, id, key, fl, a, r.page, mt_page_split(r.page))

\* insert key into superpage id; a full page is split inside the superpage;
\* [H, status], status PAGE_FULL when the superpage has no free page
mt_sp_insert(H, id, key) ==
    LET fl == sp_find_leaf(H.pages[id], key, H.pages[id].root_page, 0, <<>>)
    IN  sp_insert_status(H, id, key, fl, mt_page_insert(H.pages[id].pg[fl.leaf], key))
\* mt_sp_delete: the status returned once the key is gone
sp_delete_done(H1, id, hier) ==
    [H |-> H1,
     status |-> IF H1.pages[id].nkeys < hier.min_sp_keys THEN "UNDERFLOW" ELSE "OK"]

\* mt_sp_delete, redistribute from the left sibling page; pos: the 1-based
\* place of the separator between the two pages; lkeys, rkeys: their keys
sp_delete_from_left(H1, id, hier, pidx, pos, left_idx, leaf_idx, lkeys, rkeys) ==
    LET left == H1.pages[id].pg[left_idx]
        page == H1.pages[id].pg[leaf_idx]
        new_ln == (Len(lkeys) + Len(rkeys)) \div 2
        new_right == Slice(lkeys, new_ln, Len(lkeys) - new_ln) \o rkeys
    IN  sp_delete_done(
            [H1 EXCEPT
               !.pages[id].pg[left_idx] =
                   Reload(Slice(lkeys, 0, new_ln), left.prev, left.next),
               !.pages[id].pg[leaf_idx] = Reload(new_right, page.prev, page.next),
               !.pages[id].pg[pidx].keys[pos] = At(new_right, 0)],
            id, hier)

\* mt_sp_delete, redistribute from the right sibling page
sp_delete_from_right(H1, id, hier, pidx, pos, leaf_idx, right_idx, lkeys, rkeys) ==
    LET page == H1.pages[id].pg[leaf_idx]
        right == H1.pages[id].pg[right_idx]
        new_ln == (Len(lkeys) + Len(rkeys)) \div 2
        move == new_ln - Len(lkeys)
        new_right_keys == Slice(rkeys, move, Len(rkeys) - move)
    IN  sp_delete_done(
            [H1 EXCEPT
               !.pages[id].pg[leaf_idx] =
                   Reload(lkeys \o Slice(rkeys, 0, move), page.prev, page.next),
               !.pages[id].pg[right_idx] =
                   Reload(new_right_keys, right.prev, right.next),
               !.pages[id].pg[pidx].keys[pos] = At(new_right_keys, 0)],
            id, hier)

\* mt_sp_delete, merge the page at gone_idx into the page at into_idx, its
\* left neighbour; pos: the 0-based separator removed from the parent;
\* merged: the keys of the two pages
sp_delete_merge(H1, id, hier, pidx, pos, into_idx, gone_idx, merged) ==
    LET into == H1.pages[id].pg[into_idx]
        gone == H1.pages[id].pg[gone_idx]
        Unlinked(H2) ==
            IF gone.next # NoPage
            THEN [H2 EXCEPT !.pages[gone.next.sp].pg[gone.next.idx].prev =
                               [sp |-> id, idx |-> into_idx]]
            ELSE H2
        \* root internal left with a single child: the child becomes the root
        Collapse(sp) ==
            IF sp.sub_height > 0 /\ Len(sp.pg[sp.root_page].keys) = 0
            THEN [sp EXCEPT !.page_bitmap = @ \ {sp.root_page},
                            !.npages_used = @ - 1,
                            !.root_page = At(sp.pg[sp.root_page].children, 0),
                            !.sub_height = @ - 1]
            ELSE sp
    IN  sp_delete_done(
            [Unlinked([H1 EXCEPT
                         !.pages[id].pg[into_idx] = Reload(merged, into.prev, gone.next),
                         !.pages[id].pg[pidx] =
                             [@ EXCEPT !.keys = RemoveAt(@, pos),
                                       !.children = RemoveAt(@, pos + 1)]])
               EXCEPT !.pages[id] =
                         Collapse([@ EXCEPT !.page_bitmap = @ \ {gone_idx},
                                            !.npages_used = @ - 1])],
            id, hier)

\* mt_sp_delete, the page leaf_idx, child cidx of the internal pidx, is
\* under min_page_keys
sp_delete_rebalance(H1, id, hier, pidx, cidx, leaf_idx) ==
    LET pg == H1.pages[id].pg
        parent == pg[pidx]
        left_idx == At(parent.children, cidx - 1)
        right_idx == At(parent.children, cidx + 1)
    IN  IF cidx > 0 /\ pg[left_idx].nkeys > hier.min_page_keys
        THEN sp_delete_from_left(H1, id, hier, pidx, cidx, left_idx, leaf_idx,
                                 mt_page_extract_sorted(pg[left_idx]),
                                 mt_page_extract_sorted(pg[leaf_idx]))
        ELSE IF cidx < Len(parent.keys) /\ pg[right_idx].nkeys > hier.min_page_keys
        THEN sp_delete_from_right(H1, id, hier, pidx, cidx + 1, leaf_idx, right_idx,
                                  mt_page_extract_sorted(pg[leaf_idx]),
                                  mt_page_extract_sorted(pg[right_idx]))
        ELSE IF cidx > 0
        THEN sp_delete_merge(H1, id, hier, pidx, cidx - 1, left_idx, leaf_idx,
                             mt_page_extract_sorted(pg[left_idx])
                                \o mt_page_extract_sorted(pg[leaf_idx]))
        ELSE sp_delete_merge(H1, id, hier, pidx, cidx, leaf_idx, right_idx,
                             mt_page_extract_sorted(pg[leaf_idx])
                                \o mt_page_extract_sorted(pg[right_idx]))

\* mt_sp_delete after mt_page_delete returned r for the page leaf fl.leaf
sp_delete_status(H, id, hier, fl, r) ==
    LET H1 == [H EXCEPT !.pages[id].pg[fl.leaf] = r.page, !.pages[id].nkeys = @ - 1]
    IN  IF r.status = "NOT_FOUND" THEN [H |-> H, status |-> "NOT_FOUND"]
        ELSE IF r.status = "OK" \/ Len(fl.path) = 0 THEN sp_delete_done(H1, id, hier)
        ELSE sp_delete_rebalance(H1, id, hier, Last(fl.path).page_idx,
                                 Last(fl.path).child_idx, fl.leaf)

\* delete key from superpage id; an underflowing page takes keys from a
\* sibling page or is merged with it; [H, status]
mt_sp_delete(H, id, key, hier) ==
    LET fl == sp_find_leaf(H.pages[id], key, H.pages[id].root_page, 0, <<>>)
    IN  sp_delete_status(H, id, hier, fl,
                         mt_page_delete(H.pages[id].pg[fl.leaf], key, hier))

\* in-order traversal of the page sub-tree (sp_extract_subtree)
mt_sp_extract_sorted(sp) ==
    LET RECURSIVE sp_extract_subtree(_, _)
        sp_extract_subtree(page_idx, height) ==
            IF height = 0 THEN mt_page_extract_sorted(sp.pg[page_idx])
            ELSE LET ch == sp.pg[page_idx].children
                     Cat[c \in 0..Len(ch)] ==
                         IF c = 0 THEN <<>>
                         ELSE Cat[c - 1] \o sp_extract_subtree(ch[c], height - 1)
                 IN  Cat[Len(ch)]
    IN  IF sp.nkeys = 0 THEN <<>> ELSE sp_extract_subtree(sp.root_page, sp.sub_height)

\* rebuild superpage id from sorted keys; the whole superpage is zeroed first,
\* header prev/next included
mt_sp_bulk_load(id, keys, hier) ==
    LET \* "Build page-level internals bottom-up"; level: [page, sep] per node
        RECURSIVE SpBulkBuildLevels(_, _, _)
        SpBulkBuildLevels(sp, level, height) ==
            IF Len(level) <= 1
            THEN [sp EXCEPT !.root_page = At(level, 0).page, !.sub_height = height]
            ELSE LET cap == MT_SP_MAX_IKEYS + 1
                     num_parents == (Len(level) + cap - 1) \div cap
                     Node(ci, nc) ==
                         [type |-> "sp_inode",
                          keys |-> [j \in 1..(nc - 1) |-> At(level, ci + j).sep],
                          children |-> [j \in 1..nc |-> At(level, ci + j - 1).page]]
                     \* Built[p]: the superpage and the next level after p parents
                     Built[p \in 0..num_parents] ==
                         IF p = 0 THEN [sp |-> sp, level |-> <<>>]
                         ELSE LET Add(b, a, ci) ==
                                      [sp |-> [a.sp EXCEPT !.pg[a.idx] =
                                                  Node(ci, Share(Len(level), num_parents, p - 1))],
                                       level |-> Append(b.level,
                                                        [page |-> a.idx, sep |-> At(level, ci).sep])]
                                  Prev(b) == Add(b, sp_page_alloc(b.sp),
                                                 ShareOffset(Len(level), num_parents, p - 1))
                              IN  Prev(Built[p - 1])
                     Round(r) == SpBulkBuildLevels(r.sp, r.level, height + 1)
                 IN  Round(Built[num_parents])
        nkeys == Len(keys)
        nleaves == (nkeys + hier.page_max_keys - 1) \div hier.page_max_keys
        \* Filled[i]: the superpage and the leaf level after i page leaves
        Filled[i \in 0..nleaves] ==
            IF i = 0 THEN [sp |-> [ZeroSp EXCEPT !.page_bitmap = {0}], level |-> <<>>]
            ELSE LET Add(f, a, offset) ==
                         [sp |-> [a.sp EXCEPT !.pg[a.idx] =
                                     mt_page_bulk_load(Slice(keys, offset,
                                                             Share(nkeys, nleaves, i - 1)))],
                          level |-> Append(f.level,
                                           [page |-> a.idx, sep |-> At(keys, offset)])]
                     Prev(f) == Add(f, sp_page_alloc(f.sp),
                                    ShareOffset(nkeys, nleaves, i - 1))
                 IN  Prev(Filled[i - 1])
        \* "Link page leaves within the superpage"
        Linked(f) ==
            [f.sp EXCEPT
               !.nkeys = nkeys,
               !.pg = [i \in DOMAIN f.sp.pg |->
                         LET at == {j \in 0..(nleaves - 1) : At(f.level, j).page = i}
                             Pos(j) ==
                                 [f.sp.pg[i] EXCEPT
                                    !.prev = IF j > 0
                                             THEN [sp |-> id,
                                                   idx |-> At(f.level, j - 1).page]
                                             ELSE NoPage,
                                    !.next = IF j < nleaves - 1
                                             THEN [sp |-> id,
                                                   idx |-> At(f.level, j + 1).page]
                                             ELSE NoPage]
                         IN  IF at = {} THEN f.sp.pg[i] ELSE Pos(SetMin(at))]]
        Build(f) == SpBulkBuildLevels(Linked(f), f.level, 0)
    IN  IF nkeys = 0 THEN mt_sp_init ELSE Build(Filled[nleaves])

\* mt_sp_split after mt_sp_extract_sorted returned all_keys
sp_split_halves(H, id, new_id, hier, all_keys) ==
    LET n == Len(all_keys)
        left_n == n \div 2
    IN  [H |-> [H EXCEPT
                  !.pages[id] = mt_sp_bulk_load(id, Slice(all_keys, 0, left_n), hier),
                  !.pages[new_id] = mt_sp_bulk_load(new_id,
                                        Slice(all_keys, left_n, n - left_n), hier)],
         sep |-> At(all_keys, left_n)]

\* left_n = n / 2 keys stay in superpage id, the rest go to new_id;
\* [H, sep], sep = all_keys[left_n]
mt_sp_split(H, id, new_id, hier) ==
    sp_split_halves(H, id, new_id, hier, mt_sp_extract_sorted(H.pages[id]))

\* the leftmost page leaf of superpage id (sp_leftmost_leaf); [sp, idx]
mt_sp_first_leaf(H, id) ==
    LET RECURSIVE sp_leftmost_leaf(_, _)
        sp_leftmost_leaf(page_idx, i) ==
            IF i < H.pages[id].sub_height
            THEN sp_leftmost_leaf(At(H.pages[id].pg[page_idx].children, 0), i + 1)
            ELSE page_idx
    IN  [sp |-> id, idx |-> sp_leftmost_leaf(H.pages[id].root_page, 0)]

(* ---- outer tree over superpages (matryoshka.c, use_superpages) --------- *)

\* mt_alloc_lnode with leaf_alloc = MT_SP_SIZE: a fresh zeroed superpage
mt_alloc_sp(H) ==
    LET id == AllocId(H.pages)
    IN  [H |-> [H EXCEPT !.pages = Put(@, id, ZeroSp)], id |-> id]

\* matryoshka_create_with(hier), hier.use_superpages: one empty superpage
matryoshka_create_with_sp ==
    LET Root(a) == [a.H EXCEPT !.root = Ptr(a.id), !.pages[a.id] = mt_sp_init]
    IN  Root(mt_alloc_sp(EmptyHeap))

RECURSIVE LastPageWalk(_, _, _)
\* "while (p->header.next) p = p->header.next" started at page p: the page
\* the loop stops at, or hang when it comes back to a page it has already
\* left (the list is cyclic and the loop never ends); [hang, p]
LastPageWalk(H, p, seen) ==
    LET Step(next) ==
            IF next = NoPage THEN [hang |-> FALSE, p |-> p]
            ELSE IF next \in seen THEN [hang |-> TRUE, p |-> p]
            ELSE LastPageWalk(H, next, seen \cup {next})
    IN  Step(H.pages[p.sp].pg[p.idx].next)

\* a->header.next = b; b->header.prev = a
LinkPages(H, a, b) ==
    [[H EXCEPT !.pages[a.sp].pg[a.idx].next = b] EXCEPT !.pages[b.sp].pg[b.idx].prev = a]

\* link the last page leaf of superpage a (found by walking next from its
\* first page leaf) to the first page leaf of superpage b; r = [H, hang] is
\* the outcome of the steps before
JoinSps(r, a, b) ==
    LET Joined(w) ==
            IF w.hang THEN [H |-> r.H, hang |-> TRUE]
            ELSE [H |-> LinkPages(r.H, w.p, mt_sp_first_leaf(r.H, b)), hang |-> FALSE]
        Walk(start) == Joined(LastPageWalk(r.H, start, {start}))
    IN  IF r.hang THEN r ELSE Walk(mt_sp_first_leaf(r.H, a))

\* matryoshka_bulk_load_with(sorted_keys, n, hier), hier.use_superpages
matryoshka_bulk_load_with_sp(sorted_keys, hier) ==
    LET n == Len(sorted_keys)
        max_lkeys == hier.sp_max_keys
        nleaves == (n + max_lkeys - 1) \div max_lkeys
        \* "Distribute keys across leaves": one bulk-loaded superpage per leaf
        Filled[i \in 0..nleaves] ==
            IF i = 0 THEN [H |-> [EmptyHeap EXCEPT !.n = n], entries |-> <<>>]
            ELSE LET Add(f, a, offset) ==
                         [H |-> [a.H EXCEPT !.pages[a.id] =
                                    mt_sp_bulk_load(a.id,
                                        Slice(sorted_keys, offset,
                                              Share(n, nleaves, i - 1)), hier)],
                          entries |-> Append(f.entries,
                                             [node |-> Ptr(a.id),
                                              min_key |-> At(sorted_keys, offset)])]
                     Prev(f) == Add(f, mt_alloc_sp(f.H), ShareOffset(n, nleaves, i - 1))
                 IN  Prev(Filled[i - 1])
        \* "Link superpages via sp_header prev/next"
        Headers(H, entries) ==
            LET idx(id) == CHOOSE i \in 0..(nleaves - 1) : At(entries, i).node.id = id
            IN  [H EXCEPT !.pages = [id \in DOMAIN @ |->
                    [@[id] EXCEPT
                       !.prev = IF idx(id) > 0
                                THEN At(entries, idx(id) - 1).node.id ELSE NULL,
                       !.next = IF idx(id) < nleaves - 1
                                THEN At(entries, idx(id) + 1).node.id ELSE NULL]]]
        \* "Link page leaves across superpage boundaries"
        Joined(H, entries) ==
            LET J[i \in 0..(nleaves - 1)] ==
                    IF i = 0 THEN [H |-> H, hang |-> FALSE]
                    ELSE JoinSps(J[i - 1], At(entries, i - 1).node.id,
                                 At(entries, i).node.id)
            IN  J[nleaves - 1].H
        Leaves(l) == BulkLevels(Joined(Headers(l.H, l.entries), l.entries), l.entries, 0)
    IN  IF n = 0 THEN matryoshka_create_with_sp ELSE Leaves(Filled[nleaves])

\* split_sp_and_insert after the key went into its half.  H: the heap at the
\* call, H2: the heap with the two halves; [H, hang]
sp_split_link(H, H2, path, id, new_id) ==
    LET saved_prev == H.pages[id].prev
        saved_next == H.pages[id].next
        first_leaf == mt_sp_first_leaf(H, id)
        \* the page leaf before the first page leaf of the superpage
        fl_prev == H.pages[id].pg[first_leaf.idx].prev
        \* "Restore inter-superpage linked list"
        H3 == [(IF saved_next # NULL
                THEN [H2 EXCEPT !.pages[saved_next].prev = new_id]
                ELSE H2)
                 EXCEPT !.pages[id].prev = saved_prev,
                        !.pages[id].next = new_id,
                        !.pages[new_id].next = saved_next,
                        !.pages[new_id].prev = id]
        left_first == mt_sp_first_leaf(H3, id)
        new_first == mt_sp_first_leaf(H3, new_id)
        \* the walks to the last page leaf of each half
        left_last == LastPageWalk(H3, left_first, {left_first})
        right_last == LastPageWalk(H3, new_first, {new_first})
        \* "Restore link from previous superpage"
        FromPrev(G) ==
            IF fl_prev # NoPage
            THEN [[G EXCEPT !.pages[left_first.sp].pg[left_first.idx].prev = fl_prev]
                     EXCEPT !.pages[fl_prev.sp].pg[fl_prev.idx].next = left_first]
            ELSE [G EXCEPT !.pages[left_first.sp].pg[left_first.idx].prev = fl_prev]
        \* "Link to next superpage's first page leaf"
        ToNext(G) ==
            IF saved_next # NULL /\ G.pages[saved_next].nkeys > 0
            THEN LinkPages(G, right_last.p, mt_sp_first_leaf(G, saved_next))
            ELSE G
        \* mt_sp_min_key(new_sp) is the separator
        Propagate(G) ==
            propagate_leaf_split(
                G, path,
                IF G.pages[new_id].nkeys = 0 THEN MT_KEY_MAX
                ELSE mt_page_min_key(G.pages[new_id].pg[mt_sp_first_leaf(G, new_id).idx]),
                Ptr(new_id))
    IN  IF left_last.hang \/ right_last.hang THEN [H |-> H3, hang |-> TRUE]
        ELSE [H |-> Propagate(ToNext(FromPrev(LinkPages(H3, left_last.p, new_first)))),
              hang |-> FALSE]

\* split_sp_and_insert after mt_sp_split returned s = [H, sep]
sp_split_insert(H, s, path, id, new_id, key) ==
    sp_split_link(H, mt_sp_insert(s.H, IF key < s.sep THEN id ELSE new_id, key).H,
                  path, id, new_id)

\* split the full superpage id, insert key into the proper half, relink the
\* superpages and the page leaves, give the parent the new separator;
\* [H, hang]
split_sp_and_insert(H, path, id, key, hier) ==
    LET a == mt_alloc_sp(H)
    IN  sp_split_insert(H, mt_sp_split(a.H, id, a.id, hier), path, id, a.id, key)

\* matryoshka_insert that gives up on a full superpage: no split, the key is
\* not stored and false is returned
matryoshka_insert_sp_status_NoSplit(r, fl, key, hier) ==
    IF r.status = "OK"
    THEN [H |-> [r.H EXCEPT !.n = @ + 1], ret |-> TRUE, hang |-> FALSE]
    ELSE [H |-> r.H, ret |-> FALSE, hang |-> FALSE]

\* matryoshka_insert, use_superpages branch, after mt_sp_insert returned r for
\* the superpage fl.leaf: the switch on the status
matryoshka_insert_sp_status(r, fl, key, hier) ==
    LET \* "tree->size++; return true" after split_sp_and_insert
        Split(s) == [H |-> IF s.hang THEN s.H ELSE [s.H EXCEPT !.n = @ + 1],
                     ret |-> TRUE, hang |-> s.hang]
    IN  IF r.status = "DUPLICATE" THEN [H |-> r.H, ret |-> FALSE, hang |-> FALSE]
        ELSE IF r.status = "OK"
        THEN [H |-> [r.H EXCEPT !.n = @ + 1], ret |-> TRUE, hang |-> FALSE]
        ELSE \* MT_PAGE_FULL: superpage out of pages
             Split(split_sp_and_insert(r.H, fl.path, fl.leaf, key, hier))

\* matryoshka_insert, use_superpages branch; [H, ret, hang]
matryoshka_insert_sp(H, key, hier) ==
    LET fl == find_leaf_node(H, key)
    IN  matryoshka_insert_sp_status(mt_sp_insert(H, fl.leaf, key), fl, key, hier)

\* rebalance_sp, redistribute between superpage lid and rid, its right
\* neighbour; pid: their parent; pos: the 1-based place of their separator
\* in the parent; merged: the keys of the two; [H, hang]
sp_rebalance_redistribute(H, hier, pid, lid, rid, pos, merged) ==
    LET new_ln == Len(merged) \div 2
        outer_prev == H.pages[lid].prev
        outer_next == H.pages[rid].next
        \* "Fix boundary with prev / next superpage": only if it exists and
        \* holds keys
        Boundary(r, a, b, other) ==
            IF ~r.hang /\ other # NULL /\ r.H.pages[other].nkeys > 0
            THEN JoinSps(r, a, b) ELSE r
        SetSep(r) ==
            IF r.hang THEN r
            ELSE [r EXCEPT !.H.inodes[pid].keys[pos] = At(merged, new_ln)]
    IN  SetSep(
          Boundary(
            Boundary(
              JoinSps(
                [H |-> [[H EXCEPT
                           !.pages[lid] =
                               [mt_sp_bulk_load(lid, Slice(merged, 0, new_ln), hier)
                                  EXCEPT !.prev = outer_prev, !.next = rid],
                           !.pages[rid] =
                               [mt_sp_bulk_load(rid, Slice(merged, new_ln,
                                                           Len(merged) - new_ln),
                                                hier)
                                  EXCEPT !.prev = lid, !.next = outer_next]]
                          EXCEPT !.pages = [s \in DOMAIN @ |->
                               IF s = outer_prev THEN [@[s] EXCEPT !.next = lid]
                               ELSE IF s = outer_next THEN [@[s] EXCEPT !.prev = rid]
                               ELSE @[s]]],
                 hang |-> FALSE],
                lid, rid),
              outer_prev, lid, outer_prev),
            rid, outer_next, outer_next))

\* rebalance_sp, merge superpage gone into its left neighbour into; pos: the
\* 0-based separator removed from the parent path[level]; merged: the keys
\* of the two; [H, hang]
sp_rebalance_merge(H, path, level, hier, into, gone, pos, merged) ==
    LET pid == At(path, level).node
        outer_prev == H.pages[into].prev
        outer_next == H.pages[gone].next
        \* "Fix boundary with prev superpage": only if it exists and holds keys
        Boundary(r) ==
            IF outer_prev # NULL /\ r.H.pages[outer_prev].nkeys > 0
            THEN JoinSps(r, outer_prev, into) ELSE r
        \* "ll = first_leaf(into); while (ll->next) ll = ll->next" is run even
        \* when no next superpage is linked
        Walk(r) == LastPageWalk(r.H, mt_sp_first_leaf(r.H, into),
                                {mt_sp_first_leaf(r.H, into)})
        LastLink(r) ==
            IF r.hang THEN r
            ELSE IF Walk(r).hang THEN [H |-> r.H, hang |-> TRUE]
            ELSE IF outer_next # NULL /\ r.H.pages[outer_next].nkeys > 0
            THEN [H |-> LinkPages(r.H, Walk(r).p, mt_sp_first_leaf(r.H, outer_next)),
                  hang |-> FALSE]
            ELSE r
        \* free the merged-away superpage, remove the separator from the
        \* parent, "Propagate internal underflow upward"
        Up(r) ==
            IF r.hang THEN r
            ELSE [H |-> RebalanceUp(
                           mt_free_lnode([r.H EXCEPT !.inodes[pid] =
                                                        inode_remove_at(@, pos)],
                                         gone),
                           path, level),
                  hang |-> FALSE]
    IN  Up(LastLink(
             Boundary(
               [H |-> [[H EXCEPT
                          !.pages[into] =
                              [mt_sp_bulk_load(into, merged, hier)
                                 EXCEPT !.prev = outer_prev, !.next = outer_next]]
                         EXCEPT !.pages = [s \in DOMAIN @ |->
                              IF s = outer_prev THEN [@[s] EXCEPT !.next = into]
                              ELSE IF s = outer_next THEN [@[s] EXCEPT !.prev = into]
                              ELSE @[s]]],
                hang |-> FALSE])))

\* rebalance after superpage underflow; level is the path index of the
\* superpage's parent; [H, hang]
rebalance_sp(H, path, id, level, hier) ==
    LET pid == At(path, level).node
        cidx == At(path, level).idx
        parent == H.inodes[pid]
        lid == mt_untag(At(parent.children, cidx - 1)).id
        rid == mt_untag(At(parent.children, cidx + 1)).id
    IN  IF cidx > 0 /\ H.pages[lid].nkeys > hier.min_sp_keys
        THEN sp_rebalance_redistribute(H, hier, pid, lid, id, cidx,
                                       mt_sp_extract_sorted(H.pages[lid])
                                          \o mt_sp_extract_sorted(H.pages[id]))
        ELSE IF cidx < Len(parent.keys) /\ H.pages[rid].nkeys > hier.min_sp_keys
        THEN sp_rebalance_redistribute(H, hier, pid, id, rid, cidx + 1,
                                       mt_sp_extract_sorted(H.pages[id])
                                          \o mt_sp_extract_sorted(H.pages[rid]))
        ELSE IF cidx > 0
        THEN sp_rebalance_merge(H, path, level, hier, lid, id, cidx - 1,
                                mt_sp_extract_sorted(H.pages[lid])
                                   \o mt_sp_extract_sorted(H.pages[id]))
        ELSE sp_rebalance_merge(H, path, level, hier, id, rid, cidx,
                                mt_sp_extract_sorted(H.pages[id])
                                   \o mt_sp_extract_sorted(H.pages[rid]))

\* matryoshka_delete, use_superpages branch, after mt_sp_delete returned r
\* for the superpage fl.leaf
matryoshka_delete_sp_status(H, r, fl, hier) ==
    LET H1 == [r.H EXCEPT !.n = @ - 1]
        Rebalanced(b) == [H |-> b.H, ret |-> TRUE, hang |-> b.hang]
    IN  IF r.status = "NOT_FOUND" THEN [H |-> H, ret |-> FALSE, hang |-> FALSE]
        ELSE IF r.status = "OK" \/ H.height = 0
        THEN [H |-> H1, ret |-> TRUE, hang |-> FALSE]
        ELSE Rebalanced(rebalance_sp(H1, fl.path, fl.leaf, H.height - 1, hier))

\* matryoshka_delete, use_superpages branch; [H, ret, hang]
matryoshka_delete_sp(H, key, hier) ==
    LET fl == find_leaf_node(H, key)
    IN  IF H.n = 0 THEN [H |-> H, ret |-> FALSE, hang |-> FALSE]
        ELSE matryoshka_delete_sp_status(H, mt_sp_delete(H, fl.leaf, key, hier),
                                         fl, hier)

\* matryoshka_insert_batch, use_superpages branch: the inner loop, keys of
\* the superpage id up to its upper bound; [H, i, inserted, hang]
RECURSIVE InsertBatchLeafSp(_, _, _, _, _, _, _, _)
RECURSIVE InsertBatchStatusSp(_, _, _, _, _, _, _, _)
\* after mt_sp_insert returned r for sorted[i]: the switch on the status
InsertBatchStatusSp(r, sorted, i, inserted, id, path, upper, hier) ==
    LET \* "tree->size++; inserted++; i++; break": the caller re-navigates
        Split(s) == [H |-> IF s.hang THEN s.H ELSE [s.H EXCEPT !.n = @ + 1],
                     i |-> i + 1, inserted |-> inserted + 1, hang |-> s.hang]
    IN  IF r.status = "DUPLICATE"
        THEN InsertBatchLeafSp(r.H, sorted, i + 1, inserted, id, path, upper, hier)
        ELSE IF r.status = "OK"
        THEN InsertBatchLeafSp([r.H EXCEPT !.n = @ + 1], sorted, i + 1, inserted + 1,
                               id, path, upper, hier)
        ELSE \* MT_PAGE_FULL: split and insert
             Split(split_sp_and_insert(r.H, path, id, At(sorted, i), hier))

InsertBatchLeafSp(H, sorted, i, inserted, id, path, upper, hier) ==
    IF i >= Len(sorted)
    THEN [H |-> H, i |-> i, inserted |-> inserted, hang |-> FALSE]
    ELSE IF i > 0 /\ At(sorted, i) = At(sorted, i - 1)
    THEN InsertBatchLeafSp(H, sorted, i + 1, inserted, id, path, upper, hier)
    ELSE IF upper # INT32_MAX /\ At(sorted, i) >= upper
    THEN [H |-> H, i |-> i, inserted |-> inserted, hang |-> FALSE]
    ELSE InsertBatchStatusSp(mt_sp_insert(H, id, At(sorted, i)), sorted, i, inserted,
                             id, path, upper, hier)

\* the outer loop: descend for sorted[i]; [H, ret, hang]
RECURSIVE InsertBatchLoopSp(_, _, _, _, _)
RECURSIVE InsertBatchDescendSp(_, _, _)
\* b: what the inner loop returned
InsertBatchDescendSp(b, sorted, hier) ==
    IF b.hang THEN [H |-> b.H, ret |-> b.inserted, hang |-> TRUE]
    ELSE InsertBatchLoopSp(b.H, sorted, b.i, b.inserted, hier)

InsertBatchLoopSp(H, sorted, i, inserted, hier) ==
    LET fl == find_leaf_node(H, At(sorted, i))
    IN  IF i >= Len(sorted) THEN [H |-> H, ret |-> inserted, hang |-> FALSE]
        ELSE IF i > 0 /\ At(sorted, i) = At(sorted, i - 1)
        THEN InsertBatchLoopSp(H, sorted, i + 1, inserted, hier)
        ELSE InsertBatchDescendSp(
                 InsertBatchLeafSp(H, sorted, i, inserted, fl.leaf, fl.path,
                                   BatchUpper(H, fl.path), hier),
                 sorted, hier)

matryoshka_insert_batch_sp(H, keys, hier) ==
    IF Len(keys) = 0 THEN [H |-> H, ret |-> 0, hang |-> FALSE]
    ELSE InsertBatchLoopSp(H, qsort(keys), 0, 0, hier)

\* matryoshka_delete_batch, use_superpages branch: the inner loop, keys of
\* the superpage id up to its upper bound; [H, i, deleted, need_rebalance]
RECURSIVE DeleteBatchLeafSp(_, _, _, _, _, _, _)
RECURSIVE DeleteBatchStatusSp(_, _, _, _, _, _, _, _)
\* after mt_sp_delete returned r for sorted[i] in the heap H
DeleteBatchStatusSp(H, r, sorted, i, deleted, id, upper, hier) ==
    LET H1 == [r.H EXCEPT !.n = @ - 1]
    IN  IF r.status = "NOT_FOUND"
        THEN DeleteBatchLeafSp(H, sorted, i + 1, deleted, id, upper, hier)
        ELSE IF r.status = "UNDERFLOW" /\ H.height > 0
        THEN [H |-> H1, i |-> i + 1, deleted |-> deleted + 1, need_rebalance |-> TRUE]
        ELSE DeleteBatchLeafSp(H1, sorted, i + 1, deleted + 1, id, upper, hier)

DeleteBatchLeafSp(H, sorted, i, deleted, id, upper, hier) ==
    IF i >= Len(sorted)
    THEN [H |-> H, i |-> i, deleted |-> deleted, need_rebalance |-> FALSE]
    ELSE IF i > 0 /\ At(sorted, i) = At(sorted, i - 1)
    THEN DeleteBatchLeafSp(H, sorted, i + 1, deleted, id, upper, hier)
    ELSE IF upper # INT32_MAX /\ At(sorted, i) >= upper
    THEN [H |-> H, i |-> i, deleted |-> deleted, need_rebalance |-> FALSE]
    ELSE DeleteBatchStatusSp(H, mt_sp_delete(H, id, At(sorted, i), hier), sorted, i,
                             deleted, id, upper, hier)

\* the outer loop: descend for sorted[i], rebalance after an underflow;
\* [H, ret, hang]
RECURSIVE DeleteBatchLoopSp(_, _, _, _, _)
RECURSIVE DeleteBatchDescendSp(_, _, _, _)
\* b: what the inner loop returned for the superpage fl.leaf
DeleteBatchDescendSp(b, fl, sorted, hier) ==
    LET Rebalanced(r) ==
            IF r.hang THEN [H |-> r.H, ret |-> b.deleted, hang |-> TRUE]
            ELSE DeleteBatchLoopSp(r.H, sorted, b.i, b.deleted, hier)
    IN  IF b.need_rebalance
        THEN Rebalanced(rebalance_sp(b.H, fl.path, fl.leaf, b.H.height - 1, hier))
        ELSE DeleteBatchLoopSp(b.H, sorted, b.i, b.deleted, hier)

DeleteBatchLoopSp(H, sorted, i, deleted, hier) ==
    LET fl == find_leaf_node(H, At(sorted, i))
    IN  IF i >= Len(sorted) THEN [H |-> H, ret |-> deleted, hang |-> FALSE]
        ELSE IF i > 0 /\ At(sorted, i) = At(sorted, i - 1)
        THEN DeleteBatchLoopSp(H, sorted, i + 1, deleted, hier)
        ELSE DeleteBatchDescendSp(
                 DeleteBatchLeafSp(H, sorted, i, deleted, fl.leaf,
                                   BatchUpper(H, fl.path), hier),
                 fl, sorted, hier)

matryoshka_delete_batch_sp(H, keys, hier) ==
    IF Len(keys) = 0 THEN [H |-> H, ret |-> 0, hang |-> FALSE]
    ELSE DeleteBatchLoopSp(H, qsort(keys), 0, 0, hier)

\* iter_load_leaf on a page leaf of a superpage
iter_load_leaf_sp(H, leaf) ==
    IF leaf # NoPage /\ H.pages[leaf.sp].pg[leaf.idx].nkeys > 0
    THEN mt_page_extract_sorted(H.pages[leaf.sp].pg[leaf.idx])
    ELSE <<>>

\* matryoshka_iter_from, use_superpages branch: [leaf, pos, sorted]
matryoshka_iter_from_sp(H, start) ==
    IF H.n = 0 THEN [leaf |-> NoPage, pos |-> 0, sorted |-> <<>>]
    ELSE LET Positioned(leaf, sorted, pos, next) ==
                 IF pos >= Len(sorted) /\ next # NoPage
                 THEN [leaf |-> next, pos |-> 0, sorted |-> iter_load_leaf_sp(H, next)]
                 ELSE [leaf |-> leaf, pos |-> pos, sorted |-> sorted]
             Loaded(leaf, sorted) ==
                 Positioned(leaf, sorted, SepPos(sorted, start, 0),
                            H.pages[leaf.sp].pg[leaf.idx].next)
             AtLeaf(leaf) == Loaded(leaf, iter_load_leaf_sp(H, leaf))
             \* mt_sp_find_leaf(node, start)
             AtSp(id) ==
                 AtLeaf([sp |-> id,
                         idx |-> sp_find_leaf(H.pages[id], start, H.pages[id].root_page,
                                              0, <<>>).leaf])
         IN  AtSp(WalkOuter(H, start, H.root, 0))

RECURSIVE matryoshka_iter_next_sp(_, _, _)
\* [iter, ok, key, hang]; the while loop skips over exhausted leaves and
\* never ends (hang) when they form a cycle; seen: the leaves it has left
matryoshka_iter_next_sp(H, iter, seen) ==
    IF iter.leaf = NoPage
    THEN [iter |-> iter, ok |-> FALSE, key |-> 0, hang |-> FALSE]
    ELSE IF iter.pos >= Len(iter.sorted)
    THEN LET Moved(next) ==
                 IF next = NoPage
                 THEN [iter |-> iter, ok |-> FALSE, key |-> 0, hang |-> FALSE]
                 ELSE IF next \in seen
                 THEN [iter |-> iter, ok |-> FALSE, key |-> 0, hang |-> TRUE]
                 ELSE matryoshka_iter_next_sp(
                          H, [leaf |-> next, pos |-> 0,
                              sorted |-> iter_load_leaf_sp(H, next)],
                          seen \cup {next})
         IN  Moved(H.pages[iter.leaf.sp].pg[iter.leaf.idx].next)
    ELSE [iter |-> [iter EXCEPT !.pos = @ + 1], ok |-> TRUE,
          key |-> At(iter.sorted, iter.pos), hang |-> FALSE]

(* ---- the program as a state machine ------------------------------------ *)

\* one tree handle; tree = the fields of matryoshka_tree_t, inodes and pages
\* the nodes it owns; last records the most recent call, its bool result (ret)
\* or its size_t result (count); nops counts the calls made
VARIABLES tree, inodes, pages, last, nops

vars == <<tree, inodes, pages, last, nops>>

\* calls made after construction in one run
MaxOps == 3
\* largest bulk-load length
MaxLoad == 55
\* longest batch array
MaxBatch == 2

INT32_MIN == -INT32_MAX - 1

\* bulk_load inputs: the even keys 0, 2, ..., 2(n-1)
EvenKeys(n) == [i \in 1..n |-> 2 * (i - 1)]
\* one page with a single CL leaf, one page whose sub-tree leaves a single free
\* slot, and the shortest load that needs two outer internal levels
LoadSizes == {0, 1, 13, MaxLoad}
\* keys passed to insert/delete: the low end of the key range and the
\* neighbourhood of the root separator of the MaxLoad-key tree; odd keys are
\* absent from every bulk-loaded tree
OpKeys == {0, 1, 2, 55, 56, 57}
\* keys placed in batch arrays: one stored low key, and the root separator of
\* the MaxLoad-key tree with its two absent neighbours
BatchKeys == {2, 55, 56, 57}
\* every array over BatchKeys up to MaxBatch long: unsorted, with repeats
BatchArrays == UNION {[1..len -> BatchKeys] : len \in 1..MaxBatch}

Heap == [root |-> tree.root, n |-> tree.n, height |-> tree.height,
         inodes |-> inodes, pages |-> pages]

SetHeap(H) ==
    /\ tree' = [root |-> H.root, n |-> H.n, height |-> H.height]
    /\ inodes' = H.inodes
    /\ pages' = H.pages

Init ==
    /\ \E H \in {matryoshka_create_with} :
          /\ tree = [root |-> H.root, n |-> H.n, height |-> H.height]
          /\ inodes = H.inodes
          /\ pages = H.pages
    /\ last = [op |-> "create", arg |-> <<>>, ret |-> FALSE, count |-> 0]
    /\ nops = 0

BulkLoad(n) ==
    /\ nops = 0
    /\ SetHeap(matryoshka_bulk_load(EvenKeys(n)))
    /\ last' = [op |-> "bulk_load", arg |-> EvenKeys(n), ret |-> FALSE, count |-> 0]
    /\ nops' = nops + 1

Insert(k) ==
    /\ nops < MaxOps
    /\ \E r \in {matryoshka_insert(Heap, k)} :
           /\ SetHeap(r.H)
           /\ last' = [op |-> "insert", arg |-> <<k>>, ret |-> r.ret, count |-> 0]
    /\ nops' = nops + 1

Delete(k) ==
    /\ nops < MaxOps
    /\ \E r \in {matryoshka_delete(Heap, k)} :
           /\ SetHeap(r.H)
           /\ last' = [op |-> "delete", arg |-> <<k>>, ret |-> r.ret, count |-> 0]
    /\ nops' = nops + 1

InsertBatch(keys) ==
    /\ nops < MaxOps
    /\ \E r \in {matryoshka_insert_batch(Heap, keys)} :
           /\ SetHeap(r.H)
           /\ last' = [op |-> "insert_batch", arg |-> keys, ret |-> FALSE,
                       count |-> r.ret]
    /\ nops' = nops + 1

DeleteBatch(keys) ==
    /\ nops < MaxOps
    /\ \E r \in {matryoshka_delete_batch(Heap, keys)} :
           /\ SetHeap(r.H)
           /\ last' = [op |-> "delete_batch", arg |-> keys, ret |-> FALSE,
                       count |-> r.ret]
    /\ nops' = nops + 1

Next ==
    \/ \E n \in LoadSizes : BulkLoad(n)
    \/ \E k \in OpKeys : Insert(k)
    \/ \E k \in OpKeys : Delete(k)
    \/ \E keys \in BatchArrays : InsertBatch(keys)
    \/ \E keys \in BatchArrays : DeleteBatch(keys)

Spec == Init /\ [][Next]_vars

(* ---- bulk load as a function of its input ------------------------------ *)

\* strictly ascending inputs: n keys with a fixed step, starting at INT32_MIN,
\* starting at 0, or ending at INT32_MAX
LoadSteps == {1, 3}
Ascending(n, base, step) == [i \in 1..n |-> base + step * (i - 1)]
LoadInputs ==
    UNION {{Ascending(n, INT32_MIN, st), Ascending(n, 0, st),
            Ascending(n, INT32_MAX - st * (n - 1), st)} :
           n \in 0..MaxLoad, st \in LoadSteps}

InitLoad ==
    /\ tree = [root |-> Ptr(NULL), n |-> 0, height |-> 0]
    /\ inodes = EmptyMap
    /\ pages = EmptyMap
    /\ last \in {[op |-> "input", arg |-> s, ret |-> FALSE, count |-> 0] : s \in LoadInputs}
    /\ nops = 0

BulkLoadInput ==
    /\ last.op = "input"
    /\ SetHeap(matryoshka_bulk_load(last.arg))
    /\ last' = [last EXCEPT !.op = "bulk_load"]
    /\ nops' = nops + 1

NextLoad == BulkLoadInput

SpecLoad == InitLoad /\ [][NextLoad]_vars

(* ---- insert with a failing allocator ----------------------------------- *)

\* the allocations of one insert that can return NULL
AllocSites == {"lnode", "inode"}

\* insert(k) during which posix_memalign fails at the given site: the process
\* takes the fault, the call does not return and no further call is made
InsertNoMem(k, fail, rebuilt) ==
    /\ nops < MaxOps
    /\ last.op # "fault"
    /\ \E r \in {insert_alloc_fail(Heap, k, fail, rebuilt)} :
          /\ r.needed
          /\ SetHeap(r.H)
    /\ last' = [op |-> "fault", arg |-> <<k>>, ret |-> FALSE, count |-> 0]
    /\ nops' = nops + 1

NextAlloc ==
    \/ /\ last.op # "fault"
       /\ Next
    \/ \E k \in OpKeys, fail \in AllocSites, rebuilt \in BOOLEAN :
          InsertNoMem(k, fail, rebuilt)

SpecAlloc == Init /\ [][NextAlloc]_vars


(* ---- a tree configured with superpages --------------------------------- *)

\* keys passed to insert/delete: the low end of the key range, and a stored
\* key and an absent key of the last superpage of the 75-key tree
SpOpKeys == {0, 1, 148, 149}
\* delete_batch arrays: all but 9 keys of the middle superpage of the 75-key
\* tree, all but 8 keys of its last superpage, and a stored key with an
\* absent one
SpBatchArrays == {Ascending(16, 50, 2), Ascending(17, 100, 2), <<3, 2>>}

InitSp ==
    /\ \E H \in {matryoshka_create_with_sp} :
          /\ tree = [root |-> H.root, n |-> H.n, height |-> H.height]
          /\ inodes = H.inodes
          /\ pages = H.pages
    /\ last = [op |-> "create", arg |-> <<>>, ret |-> FALSE, count |-> 0]
    /\ nops = 0

\* the outcome r = [H, ret, hang] of a call: a call that never returns
\* leaves the heap as it is at that point and no further call is made
Returned(op, arg, r, ret, count) ==
    /\ SetHeap(r.H)
    /\ last' = IF r.hang THEN [op |-> "hang", arg |-> arg, ret |-> FALSE, count |-> 0]
               ELSE [op |-> op, arg |-> arg, ret |-> ret, count |-> count]
    /\ nops' = nops + 1

BulkLoadSp(n) ==
    /\ nops = 0
    /\ SetHeap(matryoshka_bulk_load_with_sp(EvenKeys(n),
                                            mt_hierarchy_init_superpage))
    /\ last' = [op |-> "bulk_load", arg |-> EvenKeys(n), ret |-> FALSE, count |-> 0]
    /\ nops' = nops + 1

InsertSp(k) ==
    /\ nops < MaxOps
    /\ last.op # "hang"
    /\ \E r \in {matryoshka_insert_sp(Heap, k,
                            mt_hierarchy_init_superpage)} :
           Returned("insert", <<k>>, r, r.ret, 0)

DeleteSp(k) ==
    /\ nops < MaxOps
    /\ last.op # "hang"
    /\ \E r \in {matryoshka_delete_sp(Heap, k,
                            mt_hierarchy_init_superpage)} :
           Returned("delete", <<k>>, r, r.ret, 0)

InsertBatchSp(keys) ==
    /\ nops < MaxOps
    /\ last.op # "hang"
    /\ \E r \in {matryoshka_insert_batch_sp(Heap, keys,
                                  mt_hierarchy_init_superpage)} :
           Returned("insert_batch", keys, r, FALSE, r.ret)

DeleteBatchSp(keys) ==
    /\ nops < MaxOps
    /\ last.op # "hang"
    /\ \E r \in {matryoshka_delete_batch_sp(Heap, keys,
                                  mt_hierarchy_init_superpage)} :
           Returned("delete_batch", keys, r, FALSE, r.ret)

NextSp ==
    \* empty, one full superpage, three superpages under one outer internal
    \/ \E n \in {0, mt_hierarchy_init_superpage.sp_max_keys,
                 2 * mt_hierarchy_init_superpage.sp_max_keys + 3} : BulkLoadSp(n)
    \/ \E k \in SpOpKeys : InsertSp(k)
    \/ \E k \in SpOpKeys : DeleteSp(k)
    \/ \E keys \in SpBatchArrays : InsertBatchSp(keys)
    \/ \E keys \in SpBatchArrays : DeleteBatchSp(keys)

SpecSp == InitSp /\ [][NextSp]_vars

(* ---- observations used by the properties ------------------------------- *)

Range(s) == {s[i] : i \in DOMAIN s}
\* the keys yielded by a full iteration started at INT32_MIN
Iterated(H) == IterKeys(H, INT32_MIN)
\* the stored keys: those a full iteration yields
Stored(H) == Range(Iterated(H))

RECURSIVE SetToSeq(_)
\* the elements of S in ascending order
SetToSeq(S) == IF S = {} THEN <<>> ELSE <<SetMin(S)>> \o SetToSeq(S \ {SetMin(S)})

\* query values: every key the model stores or could store, the gaps between
\* them, and the two ends of the int32 range
Queries == ((-1)..(2 * MaxLoad + 3)) \cup {INT32_MIN, INT32_MAX}

(* ---- properties -------------------------------------------------------- *)

\* C1: in every reachable state and for every query q, search(q) returns
\* (true, k) with k the largest stored key <= q, and returns false exactly
\* when no stored key is <= q.
C1_PredecessorSearch ==
    \A q \in Queries :
        LET r == matryoshka_search(Heap, q)
            le == {k \in Stored(Heap) : k <= q}
        IN  IF le = {} THEN ~r.found ELSE r.found /\ r.key = SetMax(le)

\* C2: in every reachable state and for every k, contains(k) is true if and
\* only if k is among the keys yielded by a full iteration from INT32_MIN.
C2_ContainsIffIterated ==
    \A k \in Queries : matryoshka_contains(Heap, k) <=> k \in Stored(Heap)

\* C3: in every reachable state the keys yielded by iterating from INT32_MIN
\* form a strictly increasing sequence, so no key is yielded twice.
C3_IterationStrictlyIncreasing ==
    LET s == Iterated(Heap)
    IN  \A i \in 1..(Len(s) - 1) : s[i] < s[i + 1]

\* C4: in every reachable state size() equals the number of keys yielded by
\* a full iteration from INT32_MIN.
C4_SizeIsIterationLength ==
    matryoshka_size(Heap) = Len(Iterated(Heap))

\* C5: insert(k) returns true if and only if k was not stored immediately
\* before the call; after the call k is stored, the membership of every other
\* key is unchanged, and size grows by one exactly when true is returned.
C5_InsertLaw ==
    [][\A k \in OpKeys :
          Insert(k) =>
             /\ last'.ret = (k \notin Stored(Heap))
             /\ Stored(Heap') = Stored(Heap) \cup {k}
             /\ matryoshka_size(Heap') =
                   matryoshka_size(Heap) + (IF last'.ret THEN 1 ELSE 0)]_vars

\* C6: delete(k) returns true if and only if k was stored immediately before
\* the call; after the call k is not stored and the membership of every other
\* key is unchanged.
C6_DeleteLaw ==
    [][\A k \in OpKeys :
          Delete(k) =>
             /\ last'.ret = (k \in Stored(Heap))
             /\ Stored(Heap') = Stored(Heap) \ {k}]_vars

\* C7: for every strictly ascending sequence s, bulk_load(s) returns a tree
\* whose iteration from INT32_MIN is exactly s and whose size() is Len(s).
C7_BulkLoadLaw ==
    last.op = "bulk_load" =>
        /\ Iterated(Heap) = last.arg
        /\ matryoshka_size(Heap) = Len(last.arg)

\* a bulk load long enough to need several leaf pages under two outer
\* internal levels has been performed
C7_Witness ==
    /\ last.op = "bulk_load"
    /\ tree.height >= 2
    /\ Len(last.arg) > mt_hierarchy_init_default.page_max_keys

\* C8: from any reachable state in which k is not stored, insert(k) followed
\* by delete(k) yields a tree whose iteration from INT32_MIN is identical to
\* the iteration before the insert.
C8_InsertThenDelete ==
    \A k \in OpKeys :
        k \notin Stored(Heap) =>
            LET ins == matryoshka_insert(Heap, k)
                del == matryoshka_delete(ins.H, k)
            IN  Iterated(del.H) = Iterated(Heap)

\* C9: for every reachable state and every start value, iter_from(start)
\* followed by iter_next until it returns false yields exactly the stored
\* keys >= start in ascending order (nothing when there is none).
C9_IterFrom ==
    \A start \in Queries :
        IterKeys(Heap, start) = SetToSeq({k \in Stored(Heap) : k >= start})

RECURSIVE InsertEach(_, _, _)
\* matryoshka_insert called on keys[i], keys[i+1], ... one at a time
InsertEach(H, keys, i) ==
    IF i > Len(keys) THEN H ELSE InsertEach(matryoshka_insert(H, keys[i]).H, keys, i + 1)

\* C10: insert_batch leaves the tree storing exactly the keys that calling
\* insert on each array element one at a time would leave, returns the
\* number of distinct keys newly added, and size() grows by that number.
C10_InsertBatchAsInserts ==
    [][\A keys \in BatchArrays :
          InsertBatch(keys) =>
             /\ Iterated(Heap') = Iterated(InsertEach(Heap, keys, 1))
             /\ last'.count = Cardinality(Range(keys) \ Stored(Heap))
             /\ matryoshka_size(Heap') = matryoshka_size(Heap) + last'.count]_vars

RECURSIVE DeleteEach(_, _, _)
\* matryoshka_delete called on keys[i], keys[i+1], ... one at a time
DeleteEach(H, keys, i) ==
    IF i > Len(keys) THEN H ELSE DeleteEach(matryoshka_delete(H, keys[i]).H, keys, i + 1)

\* C11: delete_batch leaves the tree storing exactly the keys that calling
\* delete on each array element one at a time would leave, returns the
\* number of distinct keys actually removed, and size() shrinks by that number.
C11_DeleteBatchAsDeletes ==
    [][\A keys \in BatchArrays :
          DeleteBatch(keys) =>
             /\ Iterated(Heap') = Iterated(DeleteEach(Heap, keys, 1))
             /\ last'.count = Cardinality(Range(keys) \cap Stored(Heap))
             /\ matryoshka_size(Heap') = matryoshka_size(Heap) - last'.count]_vars

\* C18: whenever mt_page_insert returns MT_PAGE_FULL, every key that was
\* reachable from root_slot before the call is still reachable from root_slot
\* in the page the call leaves behind, so extract-sorted followed by
\* bulk-load keeps all of them.
C18_PageFullKeepsKeys ==
    \A id \in DOMAIN pages : \A k \in OpKeys :
        LET r == mt_page_insert(pages[id], k)
        IN  r.status = "PAGE_FULL" =>
               Range(mt_page_extract_sorted(pages[id]))
                  \subseteq Range(mt_page_extract_sorted(r.page))

(* ---- the sibling list of the page leaves ------------------------------- *)

RECURSIVE LeavesInOrder(_, _, _)
\* the leaves below node, left to right, as find_leaf's descent reaches them
LeavesInOrder(H, node, i) ==
    IF i < H.height
    THEN LET in == H.inodes[node.id]
             Cat[c \in 0..Len(in.children)] ==
                 IF c = 0 THEN <<>>
                 ELSE Cat[c - 1] \o LeavesInOrder(H, mt_untag(in.children[c]), i + 1)
         IN  Cat[Len(in.children)]
    ELSE <<node.id>>

RECURSIVE NextChain(_, _, _)
\* the leaves visited by following header.next from leaf until NULL, as
\* matryoshka_iter_next walks them; fuel stops a walk that revisits a leaf
NextChain(H, leaf, fuel) ==
    IF leaf = NULL \/ fuel = 0 THEN <<>>
    ELSE <<leaf>> \o NextChain(H, H.pages[leaf].next, fuel - 1)

RECURSIVE PrevChain(_, _, _)
\* the leaves visited by following header.prev from leaf until NULL, as
\* matryoshka_search steps back to the previous leaf
PrevChain(H, leaf, fuel) ==
    IF leaf = NULL \/ fuel = 0 THEN <<>>
    ELSE <<leaf>> \o PrevChain(H, H.pages[leaf].prev, fuel - 1)

Reverse(s) == [i \in 1..Len(s) |-> s[Len(s) + 1 - i]]

\* the forward walk from the leftmost leaf is the in-order leaf sequence and
\* the backward walk from the rightmost leaf is its reverse
LeafListLinked(H) ==
    LET L == LeavesInOrder(H, H.root, 0)
        fuel == Cardinality(DOMAIN H.pages) + 1
    IN  /\ NextChain(H, L[1], fuel) = L
        /\ PrevChain(H, L[Len(L)], fuel) = Reverse(L)

\* every key of an earlier leaf of the forward walk is below every key of a
\* later one
LeafListAscending(H) ==
    LET L == NextChain(H, LeavesInOrder(H, H.root, 0)[1], Cardinality(DOMAIN H.pages) + 1)
    IN  \A i, j \in 1..Len(L) :
           i < j => \A a \in Range(mt_page_extract_sorted(H.pages[L[i]])) :
                       \A b \in Range(mt_page_extract_sorted(H.pages[L[j]])) : a < b

\* C20: in a page-leaf tree, after every completed public operation, following
\* next from the leftmost leaf visits every leaf reachable from the root
\* exactly once in ascending key order and ends at NULL, and following prev
\* from the rightmost leaf visits the same leaves in reverse order
C20_LeafChain == LeafListLinked(Heap) /\ LeafListAscending(Heap)

\* the pointer part of C20 alone: the two walks agree with the tree's leaves
C20_LinkageOnly == LeafListLinked(Heap)

\* C17: if allocating a new leaf or outer internal node fails while insert
\* needs to split, insert does not split, returns false, and leaves the
\* stored keys, size() and the leaf list as they were before the call
C17_AllocFailureRefused ==
    [][(\E k \in OpKeys, fail \in AllocSites, rebuilt \in BOOLEAN :
           InsertNoMem(k, fail, rebuilt))
         => /\ last'.op = "insert"
            /\ last'.ret = FALSE
            /\ Stored(Heap') = Stored(Heap)
            /\ matryoshka_size(Heap') = matryoshka_size(Heap)
            /\ LeafListLinked(Heap')]_vars

(* ---- trees whose leaf pages are near their minimum fill ---------------- *)

\* calls made on a sparse tree in one run
MaxSparseOps == 2
\* most leaf pages a sparse tree is loaded with
MaxSparseLeaves == 5

\* the longest and the shortest bulk load that gives l leaf pages, for l up to
\* MaxSparseLeaves: every page full, or every page a little over half full
SparseLoads ==
    {l * mt_hierarchy_init_default.page_max_keys : l \in 1..MaxSparseLeaves}
       \cup {(l - 1) * mt_hierarchy_init_default.page_max_keys + 1 :
                l \in 2..MaxSparseLeaves}

\* how far the leaves are emptied after the load: not at all, every leaf down
\* to min_page_keys, alternately to min_page_keys and two keys above it, or
\* the first two leaves to min_page_keys and the others not at all
FillPatterns == {"full", "min", "low_high", "high_low", "min_full"}

\* keys left in the j-th leaf (0-based, left to right)
TargetFill(pattern, j) ==
    LET min_page == mt_hierarchy_init_default.min_page_keys
    IN  IF pattern = "full" THEN mt_hierarchy_init_default.page_max_keys
        ELSE IF pattern = "min" THEN min_page
        ELSE IF pattern = "min_full"
        THEN (IF j < 2 THEN min_page ELSE mt_hierarchy_init_default.page_max_keys)
        ELSE IF (pattern = "low_high") = (j % 2 = 0) THEN min_page
        ELSE min_page + 2

RECURSIVE ThinLeaf(_, _, _)
\* matryoshka_delete called on the largest key of the leaf until it holds
\* fill keys; fill >= min_page_keys, so no call underflows
ThinLeaf(H, leaf, fill) ==
    IF H.pages[leaf].nkeys > fill
    THEN ThinLeaf(matryoshka_delete(H, page_max_key(H.pages[leaf])).H, leaf, fill)
    ELSE H

RECURSIVE Thin(_, _, _, _)
\* the leaves L[j], L[j+1], ... emptied to their targets, left to right
Thin(H, L, j, pattern) ==
    IF j > Len(L) THEN H
    ELSE Thin(ThinLeaf(H, L[j], TargetFill(pattern, j - 1)), L, j + 1, pattern)

ThinFrom(H, pattern) == Thin(H, LeavesInOrder(H, H.root, 0), 1, pattern)

\* bulk_load of n even keys followed by the deletes of the fill pattern
SparseTree(n, pattern) == ThinFrom(matryoshka_bulk_load(EvenKeys(n)), pattern)

InitSparse ==
    /\ \E n \in SparseLoads, pattern \in FillPatterns :
          \E H \in {SparseTree(n, pattern)} :
             /\ tree = [root |-> H.root, n |-> H.n, height |-> H.height]
             /\ inodes = H.inodes
             /\ pages = H.pages
             /\ last = [op |-> "load", arg |-> <<n>>, ret |-> FALSE, count |-> 0]
    /\ nops = 0

\* keys passed to insert/delete on a sparse tree: the first key of every leaf
\* page (stored) and its successor (absent after a load of even keys)
LeafEdgeKeys ==
    UNION {{mt_page_min_key(pages[id]), mt_page_min_key(pages[id]) + 1} :
           id \in {i \in DOMAIN pages : pages[i].nkeys > 0}}

\* batch arrays on a sparse tree: the first keys of two neighbouring leaves,
\* and their successors
NeighbourPairs ==
    {<<mt_page_min_key(pages[id]), mt_page_min_key(pages[pages[id].next])>> :
       id \in {i \in DOMAIN pages : /\ pages[i].nkeys > 0
                                    /\ pages[i].next \in DOMAIN pages
                                    /\ pages[pages[i].next].nkeys > 0}}
SparseBatches == NeighbourPairs \cup {<<p[1] + 1, p[2] + 1>> : p \in NeighbourPairs}

NextSparse ==
    /\ nops < MaxSparseOps
    /\ \/ \E k \in LeafEdgeKeys : Insert(k)
       \/ \E k \in LeafEdgeKeys : Delete(k)
       \/ \E keys \in SparseBatches : InsertBatch(keys)
       \/ \E keys \in SparseBatches : DeleteBatch(keys)

SpecSparse == InitSparse /\ [][NextSparse]_vars

\* the trees a run on a sparse tree starts from
SparseTrees == {SparseTree(n, pattern) : n \in SparseLoads, pattern \in FillPatterns}
\* the state is what delete(last.arg) made of the starting tree H0
FirstDeleteFrom(H0) ==
    /\ nops = 1
    /\ last.op = "delete"
    /\ last.ret
    /\ Heap = matryoshka_delete(H0, last.arg[1]).H
\* number of separators in the parent of the leaf that a descent for key reaches
ParentKeys(H0, key) ==
    Len(H0.inodes[At(find_leaf(H0, key).path, H0.height - 1).node].keys)

(* ---- the outer tree's structure ---------------------------------------- *)

\* the leaf pages whose sub-tree holds key
LeavesHolding(H, key) ==
    {id \in DOMAIN H.pages : key \in Range(mt_page_extract_sorted(H.pages[id]))}

\* C21: after insert_batch every key of the array is held by no leaf other
\* than the one a fresh root-to-leaf descent for that key reaches, and after
\* delete_batch no key of the array is held by any leaf: each key was applied
\* to the leaf the descent reaches, also when it is >= a separator of an
\* ancestor above the current leaf's parent.
C21_BatchKeysAtDescentLeaf ==
    /\ last.op = "insert_batch" =>
          \A k \in Range(last.arg) :
             LeavesHolding(Heap, k) \subseteq {find_leaf_node(Heap, k).leaf}
    /\ last.op = "delete_batch" =>
          \A k \in Range(last.arg) : LeavesHolding(Heap, k) = {}

RECURSIVE OuterLevel(_, _, _)
\* the child pointers found d levels below the pointers ptrs
OuterLevel(H, ptrs, d) ==
    IF d = 0 THEN ptrs
    ELSE OuterLevel(H, UNION {Range(H.inodes[p.id].children) : p \in ptrs}, d - 1)

\* every child pointer of a lowest-level internal node addresses a live leaf
\* page and carries that page's root_slot and sub_height in its low bits
LeafTagsValid(H) ==
    H.height > 0 =>
        \A p \in OuterLevel(H, {H.root}, H.height - 1) :
           \A c \in Range(H.inodes[p.id].children) :
              /\ c.id \in DOMAIN H.pages
              /\ c = mt_tag_leaf_ptr(H, mt_untag(c))

\* C22: after every public operation on a page-leaf tree, every child pointer
\* of a lowest-level outer internal node, masked, is the base of a live leaf
\* page, and its tag bits equal that page's root_slot and sub_height; this
\* includes the leaves rebuilt by redistribution and merge in rebalance_leaf.
C22_LeafTagsValid == LeafTagsValid(Heap)

RECURSIVE SubtreeKeys(_, _, _)
\* the keys held by the leaves below node, which lies i levels below the root
SubtreeKeys(H, node, i) ==
    IF i < H.height
    THEN UNION {SubtreeKeys(H, mt_untag(c), i + 1) :
                c \in Range(H.inodes[node.id].children)}
    ELSE Range(mt_page_extract_sorted(H.pages[node.id]))

RECURSIVE OuterRouted(_, _, _)
\* below node: separators strictly increasing, and children[c] holds only
\* keys k with keys[c-1] <= k < keys[c]
OuterRouted(H, node, i) ==
    i < H.height =>
        LET in == H.inodes[node.id]
            n == Len(in.keys)
        IN  /\ Len(in.children) = n + 1
            /\ \A j \in 1..(n - 1) : in.keys[j] < in.keys[j + 1]
            /\ \A c \in 0..n :
                  /\ \A k \in SubtreeKeys(H, mt_untag(At(in.children, c)), i + 1) :
                        /\ c > 0 => At(in.keys, c - 1) <= k
                        /\ c < n => k < At(in.keys, c)
                  /\ OuterRouted(H, mt_untag(At(in.children, c)), i + 1)

\* C23: after every public operation, in every outer internal node with n
\* separators the separators are strictly increasing and children[i] holds
\* exactly the keys k with keys[i-1] <= k < keys[i] (unbounded at the two
\* ends), at every level, also after cascading merges.
C23_OuterRouting == OuterRouted(Heap, Heap.root, 0)

\* the internal nodes other than the root
NonRootInodes(H) ==
    UNION {{p.id : p \in OuterLevel(H, {H.root}, d)} : d \in 1..(H.height - 1)}

\* C27: after every public operation every outer internal node other than
\* the root holds between MT_MIN_IKEYS and MT_MAX_IKEYS separators.
C27_InodeFill ==
    \A id \in NonRootInodes(Heap) :
        /\ Len(inodes[id].keys) >= MT_MIN_IKEYS
        /\ Len(inodes[id].keys) <= MT_MAX_IKEYS

\* delete has merged two leaves under a non-root internal node that held
\* MT_MIN_IKEYS separators, and the tree kept its height: the node underflowed
\* and was refilled from its sibling
C27_Witness ==
    \E H0 \in SparseTrees :
        /\ FirstDeleteFrom(H0)
        /\ H0.height >= 2
        /\ tree.height = H0.height
        /\ Cardinality(DOMAIN pages) < Cardinality(DOMAIN H0.pages)
        /\ ParentKeys(H0, last.arg[1]) = MT_MIN_IKEYS

\* every pointer above depth height addresses an internal node, every pointer
\* at depth height a leaf page, and every leaf page is found at that depth
UniformDepth(H) ==
    /\ \A d \in 0..(H.height - 1) :
          \A p \in OuterLevel(H, {H.root}, d) :
             /\ p.id \in DOMAIN H.inodes
             /\ Len(H.inodes[p.id].children) = Len(H.inodes[p.id].keys) + 1
    /\ {p.id : p \in OuterLevel(H, {H.root}, H.height)} = DOMAIN H.pages

\* the height moves by one level per call: up when insert splits the root
\* (the new root has one separator and the old root as its first child),
\* down when delete leaves the root without a separator (the new root is the
\* old root's remaining child)
HeightStep ==
    /\ \A k \in LeafEdgeKeys :
          Insert(k) =>
             /\ tree'.height \in {tree.height, tree.height + 1}
             /\ tree'.height = tree.height + 1 =>
                   /\ tree'.root.id \notin DOMAIN inodes
                   /\ Len(inodes'[tree'.root.id].keys) = 1
                   /\ mt_untag(At(inodes'[tree'.root.id].children, 0)) = tree.root
    /\ \A k \in LeafEdgeKeys :
          Delete(k) =>
             /\ tree'.height \in {tree.height, tree.height - 1}
             /\ tree'.height = tree.height - 1 =>
                   /\ tree.root.id \notin DOMAIN inodes'
                   /\ Len(inodes[tree.root.id].keys) = 1
                   /\ tree'.root \in {mt_untag(c) : c \in Range(inodes[tree.root.id].children)}
    /\ \A keys \in SparseBatches :
          /\ InsertBatch(keys) => tree'.height >= tree.height
          /\ DeleteBatch(keys) => tree'.height <= tree.height

\* C28: every leaf lies exactly tree.height levels below the root; the height
\* grows by one only when a split passes the root and shrinks by one only
\* when the root is left with no separator; a root above height 0 has at
\* least one separator.
C28_UniformHeight ==
    /\ [](UniformDepth(Heap) /\ (tree.height > 0 => Len(inodes[tree.root.id].keys) >= 1))
    /\ [][HeightStep]_vars

\* delete has merged two leaves of a tree with two internal levels, the merge
\* of the internal nodes above them has left the root without a separator, and
\* the root was replaced by its remaining child
C28_Witness ==
    \E H0 \in SparseTrees :
        /\ FirstDeleteFrom(H0)
        /\ H0.height = 2
        /\ tree.height = 1
        /\ Cardinality(DOMAIN inodes) = Cardinality(DOMAIN H0.inodes) - 2

(* ---- one leaf page as a state machine ---------------------------------- *)

\* page-level calls made after mt_page_bulk_load in one run
MaxPageOps == 3

\* the keys the sub-tree under root_slot holds, in order
ReachableKeys(page) == extract_subtree(page, page.root_slot)

\* keys passed to mt_page_insert / mt_page_delete: the first three and the
\* last two keys of the page with their successors, and 0 and 1
PageOpKeys(page) ==
    LET s == ReachableKeys(page)
        ends == {i \in 1..Len(s) : i <= 3 \/ i >= Len(s) - 1}
    IN  {0, 1} \cup {s[i] : i \in ends} \cup {s[i] + 1 : i \in ends}

\* pages[1] is the page under test, pages[2] the page mt_page_split fills;
\* last.ret is the mt_status_t returned
InitPage ==
    /\ tree = [root |-> Ptr(1), n |-> 0, height |-> 0]
    /\ inodes = EmptyMap
    /\ pages \in {Put(EmptyMap, 1, mt_page_bulk_load(EvenKeys(n))) :
                    n \in 0..mt_hierarchy_init_default.page_max_keys}
    /\ last = [op |-> "mt_page_bulk_load", arg |-> <<>>, ret |-> "OK", count |-> 0]
    /\ nops = 0

PageInsert(id, k) ==
    /\ nops < MaxPageOps
    /\ \E r \in {mt_page_insert(pages[id], k)} :
          /\ pages' = [pages EXCEPT ![id] = r.page]
          /\ last' = [op |-> "mt_page_insert", arg |-> <<k>>, ret |-> r.status,
                      count |-> 0]
    /\ nops' = nops + 1
    /\ UNCHANGED <<tree, inodes>>

PageDelete(id, k) ==
    /\ nops < MaxPageOps
    /\ \E r \in {mt_page_delete(pages[id], k, mt_hierarchy_init_default)} :
          /\ pages' = [pages EXCEPT ![id] = r.page]
          /\ last' = [op |-> "mt_page_delete", arg |-> <<k>>, ret |-> r.status,
                      count |-> 0]
    /\ nops' = nops + 1
    /\ UNCHANGED <<tree, inodes>>

\* mt_page_split(page, new_page): called on a page holding at least two keys
PageSplit ==
    /\ nops < MaxPageOps
    /\ DOMAIN pages = {1}
    /\ Len(mt_page_extract_sorted(pages[1])) >= 2
    /\ \E sp \in {mt_page_split(pages[1])} :
          /\ pages' = Put(Put(pages, 1, sp.page), 2, sp.new_page)
          /\ last' = [op |-> "mt_page_split", arg |-> <<sp.sep>>, ret |-> "OK",
                      count |-> 0]
    /\ nops' = nops + 1
    /\ UNCHANGED <<tree, inodes>>

NextPage ==
    \/ \E id \in DOMAIN pages : \E k \in PageOpKeys(pages[id]) : PageInsert(id, k)
    \/ \E id \in DOMAIN pages : \E k \in PageOpKeys(pages[id]) : PageDelete(id, k)
    \/ PageSplit

SpecPage == InitPage /\ [][NextPage]_vars

RECURSIVE DeleteKeys(_, _, _)
\* the page after the keys ks[i..] are deleted from pg one after the other
DeleteKeys(pg, ks, i) ==
    IF i > Len(ks) THEN pg
    ELSE DeleteKeys(mt_page_delete(pg, ks[i], mt_hierarchy_init_default).page,
                    ks, i + 1)

\* the number of slots in use
SlotsUsed(page) == Cardinality(page.slot_bitmap)

(* ---- the structure of the sub-tree inside a page ----------------------- *)

RECURSIVE ReachableSlots(_, _, _)
\* the slots of the sub-nodes found by descending d levels from slot
ReachableSlots(page, slot, d) ==
    IF d = 0 \/ get_slot(page, slot).type # "internal" THEN {slot}
    ELSE {slot} \cup UNION {ReachableSlots(page, c, d - 1) :
                              c \in Range(get_slot(page, slot).children)}

\* the slots of all sub-nodes reachable from root_slot
SubTreeSlots(page) == ReachableSlots(page, page.root_slot, MT_PAGE_SLOTS)

\* C24: after every page-level operation (insert returning OK or PAGE_FULL,
\* delete, bulk load, split) page.nkeys equals the number of keys in the CL
\* leaves reachable from root_slot, which is the number of keys
\* extract-sorted returns.
C24_KeyCount ==
    \A id \in DOMAIN pages :
        /\ pages[id].nkeys = Len(ReachableKeys(pages[id]))
        /\ pages[id].nkeys = Len(mt_page_extract_sorted(pages[id]))

\* C25: after every page-level operation the set bits of slot_bitmap are
\* exactly bit 0 and the slots of the CL sub-nodes reachable from root_slot:
\* no allocated slot is unreachable and no reachable slot is marked free.
C25_BitmapIsReachable ==
    \A id \in DOMAIN pages :
        pages[id].slot_bitmap = {0} \cup SubTreeSlots(pages[id])

\* C26: after insert, delete and bulk load every CL leaf other than the root
\* holds MT_CL_MIN_KEYS..MT_CL_KEY_CAP keys and every CL internal other than
\* the root has MT_CL_MIN_CHILDREN..MT_CL_CHILD_CAP children.
C26_SubNodeFill ==
    \A id \in DOMAIN pages :
        \A slot \in SubTreeSlots(pages[id]) \ {pages[id].root_slot} :
            LET s == get_slot(pages[id], slot)
            IN  IF s.type = "leaf"
                THEN Len(s.keys) >= MT_CL_MIN_KEYS /\ Len(s.keys) <= MT_CL_KEY_CAP
                ELSE /\ Len(s.children) >= MT_CL_MIN_CHILDREN
                     /\ Len(s.children) <= MT_CL_CHILD_CAP


\* the second of two deletes empties a CL leaf below the root whose sibling
\* has a key to spare: no slot is freed, the sibling gives one key and both
\* end at or above MT_CL_MIN_KEYS
C26_Witness ==
    /\ nops = 2 /\ last.op = "mt_page_delete" /\ last.ret # "NOT_FOUND"
    /\ DOMAIN pages = {1}
    /\ LET P0 == mt_page_bulk_load(EvenKeys(pages[1].nkeys + 2))
       IN  \E k1 \in PageOpKeys(P0) :
              LET P1 == DeleteKeys(P0, <<k1>>, 1)
                  slot == page_find_leaf(P1, last.arg[1]).slot
              IN  /\ P1.nkeys = P0.nkeys - 1
                  /\ P1.sub_height > 0
                  /\ Len(get_slot(P1, slot).keys) = MT_CL_MIN_KEYS
                  /\ pages[1] = DeleteKeys(P1, <<last.arg[1]>>, 1)
                  /\ pages[1].slot_bitmap = P1.slot_bitmap
                  /\ Len(get_slot(pages[1], slot).keys) = MT_CL_MIN_KEYS
                  /\ \E sib \in SubTreeSlots(P1) \ {slot} :
                        /\ get_slot(P1, sib).type = "leaf"
                        /\ Len(get_slot(pages[1], sib).keys)
                              = Len(get_slot(P1, sib).keys) - 1
                        /\ Len(get_slot(pages[1], sib).keys) >= MT_CL_MIN_KEYS

RECURSIVE UniformSubTree(_, _, _)
\* below slot, which lies d levels above the leaf level: internals with one
\* more child than separators down to depth d, CL leaves exactly at depth d
UniformSubTree(page, slot, d) ==
    LET s == get_slot(page, slot)
    IN  IF d = 0 THEN s.type = "leaf"
        ELSE /\ s.type = "internal"
             /\ Len(s.children) = Len(s.keys) + 1
             /\ \A c \in Range(s.children) : UniformSubTree(page, c, d - 1)

\* C29: after every page-level operation every CL leaf lies exactly
\* sub_height levels below root_slot, sub_height is at most 7, and when
\* sub_height > 0 the root is a CL internal with at least one separator.
C29_UniformSubHeight ==
    \A id \in DOMAIN pages :
        /\ UniformSubTree(pages[id], pages[id].root_slot, pages[id].sub_height)
        /\ pages[id].sub_height <= 7
        /\ pages[id].sub_height > 0 =>
              Len(get_slot(pages[id], pages[id].root_slot).keys) >= 1


\* the third of three deletes merges two CL leaves and then two CL internals
\* of a sub-tree of height 2; the root, left without a separator, is freed
\* and the sub-tree has height 1
C29_Witness ==
    /\ nops = 3 /\ last.op = "mt_page_delete" /\ last.ret # "NOT_FOUND"
    /\ DOMAIN pages = {1}
    /\ pages[1].sub_height = 1
    /\ LET P0 == mt_page_bulk_load(EvenKeys(pages[1].nkeys + 3))
       IN  /\ P0.sub_height = 2
           /\ \E k1, k2 \in PageOpKeys(P0) :
                 LET P2 == DeleteKeys(P0, <<k1, k2>>, 1)
                 IN  /\ P2.nkeys = P0.nkeys - 2
                     /\ P2.sub_height = 2
                     /\ pages[1] = DeleteKeys(P2, <<last.arg[1]>>, 1)
                     /\ SlotsUsed(pages[1]) = SlotsUsed(P2) - 3
                     /\ Len(get_slot(pages[1], pages[1].root_slot).keys) >= 1

\* the keys held by the CL leaves below slot
SlotKeys(page, slot) == Range(extract_subtree(page, slot))

RECURSIVE SubTreeRouted(_, _, _)
\* below slot: separators strictly increasing, and children[c] holds only
\* keys k with keys[c-1] <= k < keys[c]; the keys of a CL leaf are strictly
\* increasing
SubTreeRouted(page, slot, d) ==
    LET s == get_slot(page, slot)
        n == Len(s.keys)
    IN  /\ \A j \in 1..(n - 1) : s.keys[j] < s.keys[j + 1]
        /\ (d > 0 /\ s.type = "internal") =>
              \A c \in 0..(Len(s.children) - 1) :
                 /\ \A k \in SlotKeys(page, At(s.children, c)) :
                       /\ c > 0 => At(s.keys, c - 1) <= k
                       /\ c < n => k < At(s.keys, c)
                 /\ SubTreeRouted(page, At(s.children, c), d - 1)

\* C30: after every page-level operation, in every CL internal with n
\* separators the separators are strictly increasing and child i holds
\* exactly the keys k with keys[i-1] <= k < keys[i]; this includes the
\* single-key redistribution between CL leaves, the rotation through the
\* parent between CL internals and the merge that pulls the separator down.
C30_SubTreeRouting ==
    \A id \in DOMAIN pages :
        SubTreeRouted(pages[id], pages[id].root_slot, MT_PAGE_SLOTS)


\* the third of three deletes merges two CL leaves under a CL internal that
\* is left with one child and takes a child from its sibling: the rotation
\* rewrites the separator in the root, the sub-tree keeps height 2
C30_Witness ==
    /\ nops = 3 /\ last.op = "mt_page_delete" /\ last.ret # "NOT_FOUND"
    /\ DOMAIN pages = {1}
    /\ pages[1].sub_height = 2
    /\ LET P0 == mt_page_bulk_load(EvenKeys(pages[1].nkeys + 3))
       IN  /\ P0.sub_height = 2
           /\ \E k1, k2 \in PageOpKeys(P0) :
                 LET P2 == DeleteKeys(P0, <<k1, k2>>, 1)
                 IN  /\ P2.nkeys = P0.nkeys - 2
                     /\ pages[1] = DeleteKeys(P2, <<last.arg[1]>>, 1)
                     /\ SlotsUsed(pages[1]) = SlotsUsed(P2) - 1
                     /\ pages[1].root_slot = P2.root_slot
                     /\ get_slot(pages[1], pages[1].root_slot).keys
                           # get_slot(P2, P2.root_slot).keys

(* ---- separators and the keys below them -------------------------------- *)

\* the CL internals reachable from root_slot
SubTreeInodes(page) ==
    {slot \in SubTreeSlots(page) : get_slot(page, slot).type = "internal"}

\* separator i (0-based) of the CL internal at slot is the least key stored
\* below the child to its right
SepIsMin(page, slot, i) ==
    LET s == get_slot(page, slot)
        right == SlotKeys(page, At(s.children, i + 1))
    IN  right # {} /\ At(s.keys, i) = SetMin(right)

\* separator i lies above every key below the child to its left and at or
\* below every key below the child to its right
SepBounds(page, slot, i) ==
    LET s == get_slot(page, slot)
    IN  /\ \A k \in SlotKeys(page, At(s.children, i)) : k < At(s.keys, i)
        /\ \A k \in SlotKeys(page, At(s.children, i + 1)) : At(s.keys, i) <= k

RECURSIVE SortedSeq(_)
SortedSeq(S) == IF S = {} THEN <<>> ELSE <<SetMin(S)>> \o SortedSeq(S \ {SetMin(S)})

\* a page holding the keys `before` was split for the insert of key: the
\* lowest floor(n/2) keys stay in left, the others are in right, key is in
\* the half its value selects, and nothing else was added or dropped
SplitHalves(before, key, left, right) ==
    LET n == Len(before)
        sep == At(before, n \div 2)
        all == Range(before) \cup {key}
    IN  /\ left = SortedSeq({x \in all : x < sep})
        /\ right = SortedSeq({x \in all : x >= sep})
        /\ Len(left) + Len(right) = n + 1

\* new_right sits immediately after leaf in the sibling list, between leaf
\* and the page that followed leaf in H0
SplicedAfter(H0, H1, leaf, new_right) ==
    LET saved_next == H0.pages[leaf].next
    IN  /\ H1.pages[leaf].next = new_right
        /\ H1.pages[leaf].prev = H0.pages[leaf].prev
        /\ H1.pages[new_right].prev = leaf
        /\ H1.pages[new_right].next = saved_next
        /\ saved_next # NULL => H1.pages[saved_next].prev = new_right

\* an insert step that split the leaf it descended to
InsertSplitStep ==
    /\ last'.op = "insert" /\ last'.ret
    /\ Cardinality(DOMAIN pages') = Cardinality(DOMAIN pages) + 1

\* C32: an insert that splits a page holding n keys leaves the lowest
\* floor(n/2) of them in the original page and the others in the new page
\* (the inserted key in the half it belongs to), losing and duplicating
\* none; the separator is the minimum key of the new page; the new page is
\* spliced in right after the original, whose former neighbours are kept.
C32_SplitAndRelink ==
    [][InsertSplitStep =>
          \A new_right \in DOMAIN pages' \ DOMAIN pages :
             LET leaf == find_leaf(Heap, last'.arg[1]).leaf
                 before == ReachableKeys(pages[leaf])
             IN  /\ SplitHalves(before, last'.arg[1],
                                ReachableKeys(pages'[leaf]),
                                ReachableKeys(pages'[new_right]))
                 /\ mt_page_min_key(pages'[new_right])
                       = At(before, Len(before) \div 2)
                 /\ SplicedAfter([pages |-> pages], [pages |-> pages'],
                                 leaf, new_right)]_vars

\* the relinking part of C32 alone
C32_RelinkOnly ==
    [][InsertSplitStep =>
          \A new_right \in DOMAIN pages' \ DOMAIN pages :
             SplicedAfter([pages |-> pages], [pages |-> pages'],
                          find_leaf(Heap, last'.arg[1]).leaf, new_right)]_vars

\* mt_page_split alone, on the keys reachable from root_slot: the lowest
\* floor(n/2) stay, the others move to the new page, the first of which
\* is returned
C32_SplitOfReachable ==
    [][(last'.op = "mt_page_split" /\ nops' = nops + 1) =>
          LET before == ReachableKeys(pages[1])
              left_n == Len(before) \div 2
          IN  /\ ReachableKeys(pages'[1]) = Slice(before, 0, left_n)
              /\ ReachableKeys(pages'[2])
                    = Slice(before, left_n, Len(before) - left_n)
              /\ last'.arg[1] = At(before, left_n)
              /\ last'.arg[1] = mt_page_min_key(pages'[2])]_vars

(* ---- predecessor search inside a page ---------------------------------- *)

\* the page invariants: key count, slot bitmap, fill, depth and routing
PageInvariants(page) ==
    /\ page.nkeys = Len(ReachableKeys(page))
    /\ page.slot_bitmap = {0} \cup SubTreeSlots(page)
    /\ UniformSubTree(page, page.root_slot, page.sub_height)
    /\ SubTreeRouted(page, page.root_slot, MT_PAGE_SLOTS)

\* queries: every value from below the least key to above the greatest
PageQueries(page) ==
    LET ks == Range(ReachableKeys(page))
    IN  IF ks = {} THEN {0} ELSE (SetMin(ks) - 1)..(SetMax(ks) + 1)

\* mt_page_search_key answers q with the largest key of the page <= q
SearchIsPredecessor(page, q) ==
    LET below == {k \in Range(ReachableKeys(page)) : k <= q}
        r == mt_page_search_key(page, q)
    IN  IF below = {} THEN ~r.found
        ELSE r.found /\ r.key = SetMax(below)

\* the CL leaf the descent for q reaches holds only keys > q, and the
\* ancestor at which the walk back up turns left is not the leaf's parent
WalksUpTwoLevels(page, q) ==
    LET fl == page_find_leaf(page, q)
    IN  /\ Len(fl.path) = 2
        /\ cl_leaf_predecessor(get_slot(page, fl.slot), q) < 0
        /\ At(fl.path, 1).child_idx = 0
        /\ At(fl.path, 0).child_idx > 0

\* C33: for every page satisfying the page invariants and every query q,
\* mt_page_search_key returns the largest key of the page <= q, or false
\* when every key is > q; this includes the case where the CL leaf reached
\* holds only keys > q and the answer is the last key of the rightmost CL
\* leaf of the previous sibling sub-tree.
C33_PageSearchKey ==
    \A id \in DOMAIN pages :
        PageInvariants(pages[id]) =>
            \A q \in PageQueries(pages[id]) : SearchIsPredecessor(pages[id], q)

\* a delete has removed the first key of a CL leaf that is the first child
\* of the second CL internal: the search for that key walks up to the root
\* and answers from the rightmost CL leaf below the first CL internal
C33_Witness ==
    /\ last.op = "mt_page_delete" /\ last.ret # "NOT_FOUND"
    /\ PageInvariants(pages[1])
    /\ WalksUpTwoLevels(pages[1], last.arg[1])
    /\ mt_page_search_key(pages[1], last.arg[1]).found
    /\ SearchIsPredecessor(pages[1], last.arg[1])

(* ---- the shape of a bulk-loaded tree ----------------------------------- *)

\* key counts of the leaves, left to right
LeafCounts(H) ==
    LET L == LeavesInOrder(H, H.root, 0)
    IN  [i \in 1..Len(L) |-> H.pages[L[i]].nkeys]

\* ceil(n / capacity) leaves, counts differing by at most one with the
\* larger ones first, each at least half the capacity unless it is alone
LeavesEvenlyFilled(H, n, capacity) ==
    LET c == LeafCounts(H)
    IN  /\ Len(c) = (n + capacity - 1) \div capacity
        /\ \A i, j \in 1..Len(c) : i < j => c[i] - c[j] \in {0, 1}
        /\ Len(c) > 1 => \A i \in 1..Len(c) : c[i] >= (capacity + 1) \div 2

\* every outer internal node has at most MT_MAX_IKEYS + 1 children, one more
\* than it has separators, and keys[j-1] is the least key below children[j]
InodesBuiltFromMinKeys(H) ==
    \A d \in 0..(H.height - 1) :
        \A ptr \in OuterLevel(H, {H.root}, d) :
            LET in == H.inodes[ptr.id]
            IN  /\ Len(in.children) <= MT_MAX_IKEYS + 1
                /\ Len(in.children) = Len(in.keys) + 1
                /\ \A j \in 1..Len(in.keys) :
                      in.keys[j] =
                         SetMin(SubtreeKeys(H, mt_untag(in.children[j + 1]), d + 1))

\* C34: bulk_load of n > 0 keys creates exactly ceil(n / leaf capacity)
\* leaves whose key counts differ by at most one, the earlier ones taking the
\* extra keys, each holding at least ceil(capacity / 2) keys unless it is the
\* only leaf; it links them in order as the sibling list and builds each
\* outer internal level with at most MT_MAX_IKEYS + 1 children per node and
\* each separator equal to the least key of its non-leftmost child.
C34_BulkLoadShape ==
    (last.op = "bulk_load" /\ Len(last.arg) > 0) =>
        /\ LeavesEvenlyFilled(Heap, Len(last.arg),
                              mt_hierarchy_init_default.page_max_keys)
        /\ LeafListLinked(Heap)
        /\ InodesBuiltFromMinKeys(Heap)

\* a load that spreads its keys unevenly over more leaves than one outer
\* internal node can hold
C34_Witness ==
    /\ last.op = "bulk_load"
    /\ tree.height = 2
    /\ Len(LeafCounts(Heap)) > MT_MAX_IKEYS + 1
    /\ LeafCounts(Heap)[1] > LeafCounts(Heap)[Len(LeafCounts(Heap))]
    /\ LeavesEvenlyFilled(Heap, Len(last.arg),
                          mt_hierarchy_init_default.page_max_keys)
    /\ InodesBuiltFromMinKeys(Heap)

(* ---- trees whose CL leaves are near their minimum fill ----------------- *)

\* calls made on a thinned tree in one run
MaxThinOps == 2

\* the load: two leaf pages of 13 keys, each a sub-tree of five CL leaves
\* under two CL internals that leaves one slot free
ThinLoadKeys == EvenKeys(26)
\* keys of the first page that are not the first key of their CL leaf, in
\* the CL leaves after the first
ThinCandidates == {8, 10, 14, 16, 20, 24}
\* bulk_load followed by the deletes of a set of candidates: no CL leaf and
\* no page underflows
ThinTree(D) == DeleteEach(matryoshka_bulk_load(ThinLoadKeys), SetToSeq(D), 1)

InitThin ==
    /\ \E D \in SUBSET ThinCandidates :
          \E H \in {ThinTree(D)} :
             /\ tree = [root |-> H.root, n |-> H.n, height |-> H.height]
             /\ inodes = H.inodes
             /\ pages = H.pages
             /\ last = [op |-> "load", arg |-> SetToSeq(D), ret |-> FALSE, count |-> 0]
    /\ nops = 0

\* keys passed to insert/delete on a thinned tree: around the first CL leaf
\* of the first page, and the first key of the second page
ThinOpKeys == {0, 1, 3, 26}

NextThin ==
    /\ nops < MaxThinOps
    /\ \/ \E k \in ThinOpKeys : Insert(k)
       \/ \E k \in ThinOpKeys : Delete(k)

SpecThin == InitThin /\ [][NextThin]_vars

(* ---- the fill of the leaf pages of a tree ------------------------------ *)

\* every leaf page reached from the root holds at least min_page_keys keys
LeavesAboveThreshold(H) ==
    \A i \in 1..Len(LeafCounts(H)) :
        LeafCounts(H)[i] >= mt_hierarchy_init_default.min_page_keys

\* C35: after every completed insert or delete on a tree of outer height > 0
\* every leaf page holds at least min_page_keys keys: a page split never
\* produces a half below the underflow threshold, and the redistribution or
\* merge after an UNDERFLOW leaves every surviving participant at or above it.
C35_LeavesAboveThreshold ==
    (last.op \in {"insert", "delete"} /\ tree.height > 0) =>
        LeavesAboveThreshold(Heap)

(* ---- live and freed nodes ---------------------------------------------- *)

\* a node that is allocated and not freed: an outer internal node when it
\* lies above the leaf level, else a leaf page
Live(H, ptr, d) ==
    IF d < H.height THEN ptr.id \in DOMAIN H.inodes ELSE ptr.id \in DOMAIN H.pages

RECURSIVE ChildrenLive(_, _, _)
\* below the live node ptr at depth d every child pointer addresses a live node
ChildrenLive(H, ptr, d) ==
    d < H.height =>
        \A c \in Range(H.inodes[ptr.id].children) :
            /\ Live(H, mt_untag(c), d + 1)
            /\ ChildrenLive(H, mt_untag(c), d + 1)

RECURSIVE free_subtree(_, _, _)
\* the nodes free_subtree passes to mt_free_inode / mt_free_lnode, in order
free_subtree(H, node, height) ==
    IF height > 0
    THEN LET in == H.inodes[node.id]
             Sub[c \in 0..Len(in.children)] ==
                 IF c = 0 THEN <<>>
                 ELSE Sub[c - 1] \o free_subtree(H, mt_untag(in.children[c]), height - 1)
         IN  Append(Sub[Len(in.children)], [kind |-> "inode", id |-> node.id])
    ELSE <<[kind |-> "lnode", id |-> node.id]>>

\* the calls of matryoshka_destroy
matryoshka_destroy(H) == free_subtree(H, H.root, H.height)

\* every allocated node
Allocated(H) ==
    {[kind |-> "inode", id |-> id] : id \in DOMAIN H.inodes}
       \cup {[kind |-> "lnode", id |-> id] : id \in DOMAIN H.pages}

\* no child pointer, sibling link or root pointer addresses a freed node
NoDanglingReference(H) ==
    /\ Live(H, H.root, 0)
    /\ ChildrenLive(H, H.root, 0)
    /\ \A id \in DOMAIN H.pages :
          /\ H.pages[id].prev \in DOMAIN H.pages \cup {NULL}
          /\ H.pages[id].next \in DOMAIN H.pages \cup {NULL}

\* destroy frees every allocated node, and none twice
DestroyFreesOnce(H) ==
    LET f == matryoshka_destroy(H)
    IN  /\ Range(f) = Allocated(H)
        /\ \A i, j \in 1..Len(f) : f[i] = f[j] => i = j

BitmapCounted(page) ==
    /\ 0 \in page.slot_bitmap
    /\ Cardinality(page.slot_bitmap) = page.nslots_used + 1

\* slot_alloc on page: 0 exactly when slots 1..MT_PAGE_SLOTS are all in use,
\* else the lowest free slot, marked used and counted
SlotAllocLowestFree(page) ==
    LET r == slot_alloc(page)
        used == page.slot_bitmap
    IN  /\ (r.slot = 0) <=> ((1..MT_PAGE_SLOTS) \subseteq used)
        /\ r.slot = 0 => r.page = page
        /\ r.slot # 0 =>
              /\ r.slot \in (1..MT_PAGE_SLOTS) \ used
              /\ \A j \in 1..(r.slot - 1) : j \in used
              /\ r.page.slot_bitmap = used \cup {r.slot}
              /\ r.page.nslots_used = page.nslots_used + 1

\* slot_free(i) on page clears bit i and no other
SlotFreeClearsOne(page) ==
    \A i \in page.slot_bitmap \ {0} :
        /\ slot_free(page, i).slot_bitmap = page.slot_bitmap \ {i}
        /\ Cardinality(slot_free(page, i).slot_bitmap) =
              slot_free(page, i).nslots_used + 1

\* C38: slot_alloc returns 0 if and only if slots 1..MT_PAGE_SLOTS are all in
\* use, and otherwise returns the lowest-numbered free slot and marks it used,
\* never slot 0 or a slot already in use; slot_free(i) clears only bit i; and
\* at all times bit 0 of slot_bitmap is set and the number of set bits equals
\* nslots_used + 1.
C38_SlotAllocator ==
    \A id \in DOMAIN pages :
        /\ BitmapCounted(pages[id])
        /\ SlotAllocLowestFree(pages[id])
        /\ SlotFreeClearsOne(pages[id])

\* a page with every slot in use, on which an insert found no free slot
C38_Witness ==
    /\ last.op = "mt_page_insert" /\ last.ret = "PAGE_FULL"
    /\ pages[1].slot_bitmap = 0..MT_PAGE_SLOTS
    /\ slot_alloc(pages[1]).slot = 0
    /\ BitmapCounted(pages[1])

(* ---- pages in the Eytzinger layout ------------------------------------- *)
(* leaf.c with strategies: a page whose flags carry MT_PAGE_FLAG_EYTZ has   *)
(* at most one CL internal, which holds separators and a child count but   *)
(* no child array; child i lives in slot root_slot + 1 + i.                *)

\* separators per Eytzinger CL internal: as many as a CL leaf has keys
\* (source value 15), and one more child (source value 16)
MT_CL_EYTZ_SEP_CAP == MT_CL_KEY_CAP
MT_CL_EYTZ_CHILD_CAP == MT_CL_EYTZ_SEP_CAP + 1

\* the Eytzinger hierarchy: page_max_keys is what one internal over
\* MT_CL_EYTZ_CHILD_CAP full CL leaves holds ("max 240 keys for Eytzinger")
mt_hierarchy_init_eytzinger ==
    LET pmax == MT_CL_EYTZ_CHILD_CAP * MT_CL_KEY_CAP
    IN  [page_max_keys |-> pmax, min_page_keys |-> pmax \div 4]

\* child index to follow: lowest i with keys[i] > key, else nkeys (every
\* SIMD variant computes this)
cl_inode_search_eytz(cl, key) ==
    LET n == Len(cl.keys)
        gt == {i \in 0..(n - 1) : At(cl.keys, i) > key}
    IN  IF n = 0 THEN 0 ELSE IF gt # {} THEN SetMin(gt) ELSE n

\* page_find_leaf on a page with MT_PAGE_FLAG_EYTZ
eytz_find_leaf(page, key) ==
    IF page.sub_height = 0 THEN [slot |-> page.root_slot, path |-> <<>>]
    ELSE LET ci == cl_inode_search_eytz(get_slot(page, page.root_slot), key)
         IN  [slot |-> page.root_slot + 1 + ci,
              path |-> <<[slot |-> page.root_slot, child_idx |-> ci]>>]

RECURSIVE eytz_extract_subtree(_, _)
\* extract_subtree on a page with MT_PAGE_FLAG_EYTZ: the children of an
\* internal are the slots slot + 1 + i for i < nchildren
eytz_extract_subtree(page, slot) ==
    LET s == get_slot(page, slot)
        Sub[i \in 0..MT_PAGE_SLOTS] ==
            IF i = 0 THEN <<>>
            ELSE Sub[i - 1] \o eytz_extract_subtree(page, slot + i)
    IN  IF s.type = "internal" THEN Sub[s.nchildren] ELSE s.keys

eytz_extract_sorted(page) ==
    IF page.nkeys = 0 THEN <<>> ELSE eytz_extract_subtree(page, page.root_slot)

RECURSIVE EytzFillLeaves(_, _, _, _)
\* the loop over the leaves: slot_alloc, copy k keys, note the separator
EytzFillLeaves(page, sorted_keys, nleaves, i) ==
    IF i >= nleaves THEN page
    ELSE LET nkeys == Len(sorted_keys)
             k == Share(nkeys, nleaves, i)
             offset == ShareOffset(nkeys, nleaves, i)
             root_slot == page.root_slot
             Fill(a) ==
                 LET pg1 == SetSlot(a.page, a.slot,
                               [cl_leaf_init EXCEPT
                                   !.keys = Slice(sorted_keys, offset, k)])
                 IN  IF i > 0
                     THEN [pg1 EXCEPT !.slots[root_slot].keys =
                              Append(@, At(sorted_keys, offset))]
                     ELSE pg1
         IN  EytzFillLeaves(Fill(slot_alloc(page)), sorted_keys, nleaves, i + 1)

\* mt_page_bulk_load with the Eytzinger strategy
eytz_bulk_load(sorted_keys) ==
    LET nkeys == Len(sorted_keys)
        n0 == (nkeys + MT_CL_KEY_CAP - 1) \div MT_CL_KEY_CAP
        nleaves == IF n0 > MT_CL_EYTZ_CHILD_CAP THEN MT_CL_EYTZ_CHILD_CAP ELSE n0
        Empty(a) == [SetSlot(a.page, a.slot, cl_leaf_init) EXCEPT !.root_slot = a.slot]
        \* the root internal in the first slot allocated
        Root(a) ==
            [SetSlot(a.page, a.slot,
                     [type |-> "internal", keys |-> <<>>, children |-> <<>>,
                      nchildren |-> nleaves])
               EXCEPT !.root_slot = a.slot]
        Built(pg) ==
            LET hdr == [pg EXCEPT !.sub_height = IF nleaves > 1 THEN 1 ELSE 0,
                                  !.nkeys = nkeys]
            IN  IF nleaves = 1
                THEN [slot_free(hdr, hdr.root_slot) EXCEPT !.root_slot = @ + 1]
                ELSE hdr
    IN  IF nkeys = 0 THEN Empty(slot_alloc(ZeroPage))
        ELSE Built(EytzFillLeaves(Root(slot_alloc(ZeroPage)), sorted_keys, nleaves, 0))

\* the insert without the test of nkeys against page_max_keys
eytz_page_insert_Uncapped(page, key, hier) ==
    LET fl == eytz_find_leaf(page, key)
        cl == get_slot(page, fl.slot)
        pos == cl_leaf_lower_bound(cl, key)
        all == eytz_extract_sorted(page)
        ins == Cardinality({j \in 1..Len(all) : all[j] < key})
    IN  IF pos < Len(cl.keys) /\ At(cl.keys, pos) = key
        THEN [page |-> page, status |-> "DUPLICATE"]
        ELSE IF Len(cl.keys) < MT_CL_KEY_CAP
        THEN [page |-> [SetSlot(page, fl.slot, cl_leaf_insert(cl, key).cl)
                           EXCEPT !.nkeys = @ + 1],
              status |-> "OK"]
        ELSE [page |-> eytz_bulk_load(InsertAt(all, ins, key)), status |-> "OK"]

\* mt_page_insert with the Eytzinger strategy
eytz_page_insert(page, key, hier) ==
    LET fl == eytz_find_leaf(page, key)
        cl == get_slot(page, fl.slot)
        pos == cl_leaf_lower_bound(cl, key)
        all == eytz_extract_sorted(page)
        ins == Cardinality({j \in 1..Len(all) : all[j] < key})
        Rebuilt(pg) == [page |-> pg,
                        status |-> IF pg.nkeys >= hier.page_max_keys
                                   THEN "PAGE_FULL" ELSE "OK"]
    IN  IF pos < Len(cl.keys) /\ At(cl.keys, pos) = key
        THEN [page |-> page, status |-> "DUPLICATE"]
        ELSE IF page.nkeys >= hier.page_max_keys
        THEN [page |-> page, status |-> "PAGE_FULL"]
        ELSE IF Len(cl.keys) < MT_CL_KEY_CAP
        THEN [page |-> [SetSlot(page, fl.slot, cl_leaf_insert(cl, key).cl)
                           EXCEPT !.nkeys = @ + 1],
              status |-> "OK"]
        ELSE IF ins < Len(all) /\ At(all, ins) = key
        THEN [page |-> page, status |-> "DUPLICATE"]
        ELSE Rebuilt(eytz_bulk_load(InsertAt(all, ins, key)))

\* mt_page_delete with the Eytzinger strategy
eytz_page_delete(page, key, hier) ==
    LET all == eytz_extract_sorted(page)
        lo == LowerBoundLoop(all, key, 0, Len(all))
        Rebuilt(pg) == [page |-> pg,
                        status |-> IF pg.nkeys < hier.min_page_keys
                                   THEN "UNDERFLOW" ELSE "OK"]
    IN  IF lo >= Len(all) \/ At(all, lo) # key
        THEN [page |-> page, status |-> "NOT_FOUND"]
        ELSE Rebuilt(eytz_bulk_load(RemoveAt(all, lo)))

\* calls made on one Eytzinger page in one run
MaxEytzOps == 3

\* keys passed to the page operations: the first three and the last two keys
\* of the page with their successors, and 0 and 1
EytzOpKeys(page) ==
    LET s == eytz_extract_sorted(page)
        ends == {i \in 1..Len(s) : i <= 3 \/ i >= Len(s) - 1}
    IN  {0, 1} \cup {s[i] : i \in ends} \cup {s[i] + 1 : i \in ends}

\* pages[1] is bulk-loaded with up to page_max_keys even keys
InitEytz ==
    /\ tree = [root |-> Ptr(1), n |-> 0, height |-> 0]
    /\ inodes = EmptyMap
    /\ \E n \in 0..mt_hierarchy_init_eytzinger.page_max_keys :
          /\ pages = Put(EmptyMap, 1, eytz_bulk_load(EvenKeys(n)))
          /\ last = [op |-> "mt_page_bulk_load", arg |-> <<n>>, ret |-> "OK",
                     count |-> 0]
    /\ nops = 0

EytzInsert(k) ==
    /\ nops < MaxEytzOps
    /\ \E r \in {eytz_page_insert(pages[1], k, mt_hierarchy_init_eytzinger)} :
          /\ pages' = [pages EXCEPT ![1] = r.page]
          /\ last' = [op |-> "mt_page_insert", arg |-> <<k>>, ret |-> r.status,
                      count |-> 0]
    /\ nops' = nops + 1
    /\ UNCHANGED <<tree, inodes>>

EytzDelete(k) ==
    /\ nops < MaxEytzOps
    /\ \E r \in {eytz_page_delete(pages[1], k, mt_hierarchy_init_eytzinger)} :
          /\ pages' = [pages EXCEPT ![1] = r.page]
          /\ last' = [op |-> "mt_page_delete", arg |-> <<k>>, ret |-> r.status,
                      count |-> 0]
    /\ nops' = nops + 1
    /\ UNCHANGED <<tree, inodes>>

NextEytz ==
    \/ \E k \in EytzOpKeys(pages[1]) : EytzInsert(k)
    \/ \E k \in EytzOpKeys(pages[1]) : EytzDelete(k)

SpecEytz == InitEytz /\ [][NextEytz]_vars

\* the root internal's children are the slots root_slot + 1 ..
\* root_slot + nchildren, all CL leaves, in key order under the separators
EytzChildrenContiguous(page) ==
    LET root == get_slot(page, page.root_slot)
        child(i) == get_slot(page, page.root_slot + 1 + i)
    IN  /\ root.type = "internal"
        /\ root.nchildren <= MT_CL_EYTZ_CHILD_CAP
        /\ root.nchildren = Len(root.keys) + 1
        /\ page.root_slot + root.nchildren <= MT_PAGE_SLOTS
        /\ page.slot_bitmap =
              {0} \cup (page.root_slot..(page.root_slot + root.nchildren))
        /\ \A i \in 0..(root.nchildren - 1) :
              /\ child(i).type = "leaf"
              /\ \A k \in Range(child(i).keys) :
                    /\ i > 0 => At(root.keys, i - 1) <= k
                    /\ i < root.nchildren - 1 => k < At(root.keys, i)

\* C37: for a page using the Eytzinger layout, after every page-level
\* insert, delete or bulk-load, sub_height is at most 1, the root internal's
\* children occupy exactly the consecutive slots root_slot + 1 ..
\* root_slot + nchildren in key order with nchildren at most
\* MT_CL_EYTZ_CHILD_CAP, and every CL leaf holds at most MT_CL_KEY_CAP keys.
C37_EytzingerLayout ==
    LET page == pages[1]
    IN  /\ page.sub_height <= 1
        /\ page.sub_height = 1 => EytzChildrenContiguous(page)
        /\ page.sub_height = 0 => get_slot(page, page.root_slot).type = "leaf"
        /\ \A s \in page.slot_bitmap \ {0} :
              get_slot(page, s).type = "leaf" =>
                 Len(get_slot(page, s).keys) <= MT_CL_KEY_CAP

\* an insert into a full CL leaf rebuilt the page into MT_CL_EYTZ_CHILD_CAP
\* CL leaves behind the root internal
C37_Witness ==
    /\ last.op = "mt_page_insert"
    /\ last.ret # "DUPLICATE"
    /\ nops = MaxEytzOps
    /\ pages[1].sub_height = 1
    /\ get_slot(pages[1], pages[1].root_slot).nchildren = MT_CL_EYTZ_CHILD_CAP
    /\ last.arg[1] \in Range(eytz_extract_sorted(pages[1]))
    /\ EytzChildrenContiguous(pages[1])

(* ---- pages with the fence-keys strategy -------------------------------- *)
(* leaf.c with strategies: the page header caches the separators and child *)
(* slots of the CL root internal (fence_keys, fence_slots, nfence); the    *)
(* sub-tree itself is laid out as with the default strategy.               *)

\* separators the header can cache: half of MT_CL_SEP_CAP (source value 6)
MT_FENCE_KEY_CAP == MT_CL_SEP_CAP \div 2
MT_FENCE_SLOT_CAP == MT_FENCE_KEY_CAP + 1

\* the header fields of a page after memset(page, 0, MT_PAGE_SIZE)
fence_zero(page) ==
    [nfence |-> 0,
     fence_keys |-> [j \in 1..MT_FENCE_KEY_CAP |-> 0],
     fence_slots |-> [j \in 1..MT_FENCE_SLOT_CAP |-> 0]] @@ page

\* copies the root's separators and child slots when they fit; entries past
\* the copied ones keep what they held
refresh_fence_keys(page) ==
    LET root == get_slot(page, page.root_slot)
        n == Len(root.keys)
    IN  IF page.sub_height = 0 THEN [page EXCEPT !.nfence = 0]
        ELSE IF n > MT_FENCE_KEY_CAP THEN [page EXCEPT !.nfence = 0]
        ELSE [page EXCEPT
                !.fence_keys = [j \in 1..MT_FENCE_KEY_CAP |->
                                   IF j <= n THEN root.keys[j] ELSE @[j]],
                !.fence_slots = [j \in 1..MT_FENCE_SLOT_CAP |->
                                    IF j <= n + 1 THEN root.children[j] ELSE @[j]],
                !.nfence = n]

\* lowest i < nfence with fkeys[i] > key, else nfence
fence_search(fkeys, nfence, key) ==
    LET gt == {i \in 0..(nfence - 1) : At(fkeys, i) > key}
    IN  IF gt # {} THEN SetMin(gt) ELSE nfence

\* page_find_leaf with the fence fast path: the first step is taken from
\* the header, the levels below from the CL internals
fence_find_leaf(page, key) ==
    IF page.sub_height > 0 /\ page.nfence > 0
    THEN LET ci == fence_search(page.fence_keys, page.nfence, key)
         IN  FindLeafLoop(page, key, At(page.fence_slots, ci), 1,
                          <<[slot |-> page.root_slot, child_idx |-> ci]>>)
    ELSE page_find_leaf(page, key)

\* mt_page_bulk_load with the fence-keys strategy
fence_bulk_load(sorted_keys) ==
    refresh_fence_keys(fence_zero(mt_page_bulk_load(sorted_keys)))

\* the insert with no refresh_fence_keys call
fence_page_insert_NoRefresh(page, key) == mt_page_insert(page, key)

\* mt_page_insert with the fence-keys strategy. The descent is
\* fence_find_leaf, which takes the path of page_find_leaf in every state
\* whose fence equals the root (C39_FenceMatchesRoot checks both); the fence
\* is refreshed on every return that follows the split of a CL leaf.
fence_page_insert(page, key) ==
    LET fl == fence_find_leaf(page, key)
        cl == get_slot(page, fl.slot)
        pos == cl_leaf_lower_bound(cl, key)
        split == /\ Len(cl.keys) >= MT_CL_KEY_CAP
                 /\ ~(pos < Len(cl.keys) /\ At(cl.keys, pos) = key)
                 /\ slot_alloc(page).slot # 0
        r == mt_page_insert(page, key)
    IN  [page |-> IF split THEN refresh_fence_keys(r.page) ELSE r.page,
         status |-> r.status]

\* mt_page_delete with the fence-keys strategy: the fence is refreshed
\* after the underflow of a CL leaf has been repaired
fence_page_delete(page, key, hier) ==
    LET fl == fence_find_leaf(page, key)
        d == cl_leaf_delete(get_slot(page, fl.slot), key)
        repaired == /\ d.rc >= 0
                    /\ Len(fl.path) # 0
                    /\ Len(d.cl.keys) < MT_CL_MIN_KEYS
        r == mt_page_delete(page, key, hier)
    IN  [page |-> IF repaired THEN refresh_fence_keys(r.page) ELSE r.page,
         status |-> r.status]

\* mt_page_split with the fence-keys strategy
fence_page_split(page) ==
    LET r == mt_page_split(page)
    IN  [page |-> refresh_fence_keys(fence_zero(r.page)),
         new_page |-> refresh_fence_keys(fence_zero(r.new_page)),
         sep |-> r.sep]

\* calls made on the pages in one run
MaxFenceOps == 3

\* pages[1] is bulk-loaded with up to page_max_keys even keys
InitFence ==
    /\ tree = [root |-> Ptr(1), n |-> 0, height |-> 0]
    /\ inodes = EmptyMap
    /\ \E n \in 0..mt_hierarchy_init_default.page_max_keys :
          /\ pages = Put(EmptyMap, 1, fence_bulk_load(EvenKeys(n)))
          /\ last = [op |-> "mt_page_bulk_load", arg |-> <<n>>, ret |-> "OK",
                     count |-> 0]
    /\ nops = 0

FenceInsert(id, k) ==
    /\ nops < MaxFenceOps
    /\ \E r \in {fence_page_insert(pages[id], k)} :
          /\ pages' = [pages EXCEPT ![id] = r.page]
          /\ last' = [op |-> "mt_page_insert", arg |-> <<k>>, ret |-> r.status,
                      count |-> id]
    /\ nops' = nops + 1
    /\ UNCHANGED <<tree, inodes>>

FenceDelete(id, k) ==
    /\ nops < MaxFenceOps
    /\ \E r \in {fence_page_delete(pages[id], k, mt_hierarchy_init_default)} :
          /\ pages' = [pages EXCEPT ![id] = r.page]
          /\ last' = [op |-> "mt_page_delete", arg |-> <<k>>, ret |-> r.status,
                      count |-> id]
    /\ nops' = nops + 1
    /\ UNCHANGED <<tree, inodes>>

\* what matryoshka_insert does with a page that returned MT_PAGE_FULL
FenceSplit ==
    /\ nops < MaxFenceOps
    /\ DOMAIN pages = {1}
    /\ last.ret = "PAGE_FULL"
    /\ \E r \in {fence_page_split(pages[1])} :
          /\ pages' = Put(Put(pages, 1, r.page), 2, r.new_page)
          /\ last' = [op |-> "mt_page_split", arg |-> <<r.sep>>, ret |-> "OK",
                      count |-> 1]
    /\ nops' = nops + 1
    /\ UNCHANGED <<tree, inodes>>

NextFence ==
    \/ \E id \in DOMAIN pages : \E k \in PageOpKeys(pages[id]) : FenceInsert(id, k)
    \/ \E id \in DOMAIN pages : \E k \in PageOpKeys(pages[id]) : FenceDelete(id, k)
    \/ FenceSplit

SpecFence == InitFence /\ [][NextFence]_vars

\* the cached separators and child slots are those of the CL root internal
FenceEqualsRoot(page) ==
    LET root == get_slot(page, page.root_slot)
    IN  /\ page.sub_height > 0
        /\ root.type = "internal"
        /\ page.nfence = Len(root.keys)
        /\ \A i \in 0..(page.nfence - 1) : At(page.fence_keys, i) = At(root.keys, i)
        /\ \A i \in 0..page.nfence : At(page.fence_slots, i) = At(root.children, i)

\* C39: for a page using the fence-keys strategy, whenever nfence > 0 after
\* a completed page-level operation, nfence equals the CL root internal's
\* key count and fence_keys[0..nfence) and fence_slots[0..nfence] equal the
\* root internal's separators and child slots, so the fence fast path
\* selects the same child as a search of the root internal would.
C39_FenceMatchesRoot ==
    \A id \in DOMAIN pages :
        pages[id].nfence > 0 =>
            /\ FenceEqualsRoot(pages[id])
            /\ \A q \in PageQueries(pages[id]) :
                  fence_find_leaf(pages[id], q) = page_find_leaf(pages[id], q)

\* an insert split the single CL leaf of a page and made a root internal:
\* the fence, empty before, holds the new root's separator and child slots
C39_Witness ==
    /\ last.op = "mt_page_insert" /\ last.ret = "OK"
    /\ nops = 1
    /\ pages[1].nkeys = MT_CL_KEY_CAP + 1
    /\ pages[1].sub_height = 1
    /\ pages[1].nfence = 1
    /\ FenceEqualsRoot(pages[1])

(* ---- the three page strategies side by side ---------------------------- *)
(* pages[1] uses the Eytzinger layout, pages[2] the default strategy and   *)
(* pages[3] the fence keys; every call is made on all three.               *)

\* page_find_leaf on a page of each strategy
strat_find_leaf(page, key, strat) ==
    IF strat = "EYTZ" THEN eytz_find_leaf(page, key)
    ELSE IF strat = "FENCE" THEN fence_find_leaf(page, key)
    ELSE page_find_leaf(page, key)

\* mt_page_search_key: predecessor search from the CL leaf the descent of
\* the page's strategy reaches
strat_page_search_key(page, key, strat) ==
    IF page.nkeys = 0 THEN [found |-> FALSE, key |-> 0]
    ELSE LET AtLeaf(fl, cl, pos) ==
                 IF pos >= 0 THEN [found |-> TRUE, key |-> At(cl.keys, pos)]
                 ELSE WalkLeft(page, fl.path, Len(fl.path) - 1)
             Found(fl) == AtLeaf(fl, get_slot(page, fl.slot),
                                 cl_leaf_predecessor(get_slot(page, fl.slot), key))
         IN  Found(strat_find_leaf(page, key, strat))

\* mt_page_contains from the CL leaf the descent of the page's strategy reaches
strat_page_contains(page, key, strat) ==
    IF page.nkeys = 0 THEN FALSE
    ELSE LET AtLeaf(cl, pos) == pos < Len(cl.keys) /\ At(cl.keys, pos) = key
             Found(cl) == AtLeaf(cl, cl_leaf_lower_bound(cl, key))
         IN  Found(get_slot(page, strat_find_leaf(page, key, strat).slot))

\* mt_page_extract_sorted: the Eytzinger branch of extract_subtree or the
\* walk over the child arrays
strat_extract_sorted(page, strat) ==
    IF strat = "EYTZ" THEN eytz_extract_sorted(page)
    ELSE mt_page_extract_sorted(page)

\* the delete whose Eytzinger branch reports the status and leaves the page
\* as it was
strat_page_delete_Kept(page, key, hier, strat) ==
    IF strat = "EYTZ"
    THEN [page |-> page, status |-> eytz_page_delete(page, key, hier).status]
    ELSE IF strat = "FENCE" THEN fence_page_delete(page, key, hier)
    ELSE mt_page_delete(page, key, hier)

\* mt_page_insert and mt_page_delete under the hierarchy of each strategy
strat_page_insert(page, key, strat) ==
    IF strat = "EYTZ" THEN eytz_page_insert(page, key, mt_hierarchy_init_eytzinger)
    ELSE IF strat = "FENCE" THEN fence_page_insert(page, key)
    ELSE mt_page_insert(page, key)

strat_page_delete(page, key, hier, strat) ==
    IF strat = "EYTZ" THEN eytz_page_delete(page, key, hier)
    ELSE IF strat = "FENCE" THEN fence_page_delete(page, key, hier)
    ELSE mt_page_delete(page, key, hier)

\* the strategy of pages[1], pages[2], pages[3]
Strategies == <<"EYTZ", "DEFAULT", "FENCE">>

StratHier(strat) ==
    IF strat = "EYTZ" THEN mt_hierarchy_init_eytzinger ELSE mt_hierarchy_init_default

\* calls made on the three pages in one run
MaxStratOps == 3

\* the three pages are bulk-loaded with the same even keys, up to the
\* page_max_keys of the Eytzinger hierarchy
InitStrat ==
    /\ tree = [root |-> Ptr(1), n |-> 0, height |-> 0]
    /\ inodes = EmptyMap
    /\ \E n \in 0..mt_hierarchy_init_eytzinger.page_max_keys :
          /\ pages = Put(Put(Put(EmptyMap, 1, eytz_bulk_load(EvenKeys(n))),
                             2, mt_page_bulk_load(EvenKeys(n))),
                         3, fence_bulk_load(EvenKeys(n)))
          /\ last = [op |-> "mt_page_bulk_load", arg |-> <<n>>,
                     ret |-> <<"OK", "OK", "OK">>, count |-> 0]
    /\ nops = 0

StratInsert(k) ==
    /\ nops < MaxStratOps
    /\ \E r \in {[i \in 1..3 |-> strat_page_insert(pages[i], k, Strategies[i])]} :
          /\ pages' = [i \in 1..3 |-> r[i].page]
          /\ last' = [op |-> "mt_page_insert", arg |-> <<k>>,
                      ret |-> [i \in 1..3 |-> r[i].status], count |-> 0]
    /\ nops' = nops + 1
    /\ UNCHANGED <<tree, inodes>>

StratDelete(k) ==
    /\ nops < MaxStratOps
    /\ \E r \in {[i \in 1..3 |-> strat_page_delete(pages[i], k,
                                     StratHier(Strategies[i]), Strategies[i])]} :
          /\ pages' = [i \in 1..3 |-> r[i].page]
          /\ last' = [op |-> "mt_page_delete", arg |-> <<k>>,
                      ret |-> [i \in 1..3 |-> r[i].status], count |-> 0]
    /\ nops' = nops + 1
    /\ UNCHANGED <<tree, inodes>>

NextStrat ==
    \/ \E k \in EytzOpKeys(pages[1]) \cup PageOpKeys(pages[2]) : StratInsert(k)
    \/ \E k \in EytzOpKeys(pages[1]) \cup PageOpKeys(pages[2]) : StratDelete(k)

SpecStrat == InitStrat /\ [][NextStrat]_vars

\* values searched for: from below the least key of any of the pages to
\* above the greatest
StratQueries(ps) ==
    LET ks == UNION {Range(strat_extract_sorted(ps[i], Strategies[i])) : i \in 1..3}
    IN  IF ks = {} THEN {0} ELSE (SetMin(ks) - 1)..(SetMax(ks) + 1)

\* search, contains and extract-sorted give the same on the three pages
StratAgree(ps) ==
    \A i \in {1, 3} :
        /\ strat_extract_sorted(ps[i], Strategies[i]) = strat_extract_sorted(ps[2], "DEFAULT")
        /\ \A q \in StratQueries(ps) :
              /\ strat_page_search_key(ps[i], q, Strategies[i])
                    = strat_page_search_key(ps[2], q, "DEFAULT")
              /\ strat_page_contains(ps[i], q, Strategies[i])
                    = strat_page_contains(ps[2], q, "DEFAULT")

\* inserted or deleted (MT_OK, or MT_UNDERFLOW after the key was removed),
\* duplicate, not found, page full
Outcome(status) == IF status = "UNDERFLOW" THEN "OK" ELSE status

SameOutcomes(ret) == \A i \in {1, 3} : Outcome(ret[i]) = Outcome(ret[2])

SpPageLeaves(H) ==
    LET \* the page leaves below page_idx of superpage id, left to right
        RECURSIVE SpSubtreeLeaves(_, _, _)
        SpSubtreeLeaves(id, page_idx, height) ==
            IF height = 0 THEN <<[sp |-> id, idx |-> page_idx]>>
            ELSE LET ch == H.pages[id].pg[page_idx].children
                     Below[c \in 0..Len(ch)] ==
                         IF c = 0 THEN <<>>
                         ELSE Below[c - 1] \o SpSubtreeLeaves(id, ch[c], height - 1)
                 IN  Below[Len(ch)]
        sps == LeavesInOrder(H, H.root, 0)
        Cat[c \in 0..Len(sps)] ==
            IF c = 0 THEN <<>>
            ELSE Cat[c - 1] \o SpSubtreeLeaves(sps[c], H.pages[sps[c]].root_page,
                                               H.pages[sps[c]].sub_height)
    IN  Cat[Len(sps)]

RECURSIVE SpChain(_, _, _, _)
\* the page leaves visited by following next (forward) or prev from p until
\* NULL; fuel stops a walk that revisits a page leaf
SpChain(H, p, forward, fuel) ==
    IF p = NoPage \/ fuel = 0 THEN <<>>
    ELSE <<p>> \o SpChain(H, IF forward THEN H.pages[p.sp].pg[p.idx].next
                             ELSE H.pages[p.sp].pg[p.idx].prev,
                          forward, fuel - 1)

\* C19: in a superpage tree, after every completed public operation, the
\* page-leaf chain is acyclic and visits every page leaf of every superpage
\* exactly once in ascending key order: the forward walk from the first page
\* leaf is the in-order sequence of page leaves (so the last page leaf of each
\* superpage is followed by the first of the next), and the backward walk from
\* the last page leaf is its reverse
C19_SpLeafChain ==
    last.op # "hang" =>
        LET L == SpPageLeaves(Heap)
            fuel == Len(L) + 1
            Keys(p) == Range(mt_page_extract_sorted(Heap.pages[p.sp].pg[p.idx]))
        IN  /\ SpChain(Heap, L[1], TRUE, fuel) = L
            /\ SpChain(Heap, L[Len(L)], FALSE, fuel) = Reverse(L)
            /\ \A i, j \in 1..Len(L) :
                  i < j => \A a \in Keys(L[i]) : \A b \in Keys(L[j]) : a < b

\* C14: every call to insert, delete, insert_batch and delete_batch
\* terminates from every reachable state: no call on a superpage tree gets
\* into a walk along next pointers that never reaches NULL
C14_CallsTerminate == last.op # "hang"

RECURSIVE IterRunSp(_, _, _)
\* the caller's loop "while (matryoshka_iter_next(it, &key))" on the iterator
\* it: "end" when a call returns false, "hang" when a call does not return,
\* "revisit" when a call moves the iterator to a page leaf it has already
\* left, after which the calls return true for ever; visited: the page
\* leaves the iterator has been on.  The calls that return the keys left in
\* the buffer only advance pos; r is the outcome of the call after them
IterRunSp(H, it, visited) ==
    LET After(r) ==
            IF r.hang THEN "hang"
            ELSE IF ~r.ok THEN "end"
            ELSE IF r.iter.leaf \in visited THEN "revisit"
            ELSE IterRunSp(H, r.iter, visited \cup {r.iter.leaf})
    IN  After(matryoshka_iter_next_sp(H, [it EXCEPT !.pos = Len(it.sorted)],
                                      {it.leaf}))

\* starting keys of the iterators looked at: before every key, and inside
\* the key range
IterStarts == {INT32_MIN, 100}

\* C15: an iterator that is repeatedly advanced with iter_next eventually
\* returns false: after finitely many calls it reaches the end of the sibling
\* list and never returns to a leaf it has already visited.  Stated for the
\* iterators iter_from opens on a superpage tree no call is running on
C15_IteratorEnds ==
    last.op # "hang" =>
        \A start \in IterStarts :
            LET it == matryoshka_iter_from_sp(Heap, start)
            IN  IterRunSp(Heap, it, {it.leaf}) = "end"

(* ---- a superpage tree against a page-leaf tree ------------------------- *)

\* the keys held by the page leaves of a superpage tree, left to right
SpKeys(H) ==
    LET L == SpPageLeaves(H)
        Cat[c \in 0..Len(L)] ==
            IF c = 0 THEN <<>>
            ELSE Cat[c - 1] \o mt_page_extract_sorted(H.pages[L[c].sp].pg[L[c].idx])
    IN  Cat[Len(L)]

\* the keys a run of iter_next calls returns after iter_from(INT32_MIN): the
\* rest of the iterator's buffer, then the keys of each page leaf the next
\* pointers lead to; the walk is cut off after one more page leaf than the
\* tree has
SpIterated(H) ==
    LET Keys(L) ==
            LET Cat[c \in 0..Len(L)] ==
                    IF c = 0 THEN <<>>
                    ELSE Cat[c - 1]
                            \o mt_page_extract_sorted(H.pages[L[c].sp].pg[L[c].idx])
            IN  Cat[Len(L)]
        From(it) ==
            IF it.leaf = NoPage THEN <<>>
            ELSE Slice(it.sorted, it.pos, Len(it.sorted) - it.pos)
                    \o Keys(SpChain(H, H.pages[it.leaf.sp].pg[it.leaf.idx].next, TRUE,
                                    Len(SpPageLeaves(H)) + 1))
    IN  From(matryoshka_iter_from_sp(H, INT32_MIN))

\* the same run on a page-leaf tree
PageIterated(H) ==
    LET Keys(L) ==
            LET Cat[c \in 0..Len(L)] ==
                    IF c = 0 THEN <<>>
                    ELSE Cat[c - 1] \o mt_page_extract_sorted(H.pages[L[c]])
            IN  Cat[Len(L)]
        From(it) ==
            IF it.leaf = NULL THEN <<>>
            ELSE Slice(it.sorted, it.pos, Len(it.sorted) - it.pos)
                    \o Keys(NextChain(H, H.pages[it.leaf].next,
                                      Cardinality(DOMAIN H.pages) + 1))
    IN  From(matryoshka_iter_from(H, INT32_MIN))

\* the tree with the default 4 KiB page leaves that holds the same keys
PageTwin(H) == matryoshka_bulk_load(SetToSeq(Range(SpKeys(H))))

\* the call on the superpage tree returned what the same call returned on the
\* page-leaf tree t (result ret or count), and both trees then have the same
\* size and iterate to the same keys
SameOutcome(t, ret, count) ==
    /\ last'.op # "hang"
    /\ last'.ret = ret
    /\ last'.count = count
    /\ matryoshka_size(Heap') = matryoshka_size(t)
    /\ SpIterated(Heap') = PageIterated(t)

\* C12: a superpage tree returns the same results as a tree with the default
\* page leaves given the same calls: for every insert, delete and
\* delete_batch made on a superpage tree, the same call made on the page-leaf
\* tree holding the same keys returns the same result, and afterwards size()
\* and a full iteration agree between the two trees
C12_SameAsPageLeafTree ==
    [][/\ \A k \in SpOpKeys :
             InsertSp(k) =>
                LET t == matryoshka_insert(PageTwin(Heap), k)
                IN  SameOutcome(t.H, t.ret, 0)
       /\ \A k \in SpOpKeys :
             DeleteSp(k) =>
                LET t == matryoshka_delete(PageTwin(Heap), k)
                IN  SameOutcome(t.H, t.ret, 0)
       /\ \A keys \in SpBatchArrays :
             DeleteBatchSp(keys) =>
                LET t == matryoshka_delete_batch(PageTwin(Heap), keys)
                IN  SameOutcome(t.H, FALSE, t.ret)]_vars

(* ---- either configuration ---------------------------------------------- *)

\* a tree created with the default configuration or with superpages; the
\* calls made on it are those of its configuration
NextAny ==
    \/ /\ ~use_superpages(Heap)
       /\ Next
    \/ /\ use_superpages(Heap)
       /\ NextSp

SpecAny == (Init \/ InitSp) /\ [][NextAny]_vars

\* the number of times k occurs in s
Occurrences(s, k) == Cardinality({i \in DOMAIN s : s[i] = k})

\* the leaf-equivalent a fresh descent for k reaches reports PAGE_FULL when k
\* is inserted into it
ReportsPageFull(H, k) ==
    IF use_superpages(H)
    THEN mt_sp_insert(H, find_leaf_node(H, k).leaf, k).status = "PAGE_FULL"
    ELSE mt_page_insert(H.pages[find_leaf_node(H, k).leaf], k).status = "PAGE_FULL"

================================================================================

